---- MODULE Spec2Model ----
(***************************************************************************)
(* Pruning task generators of nni (compression v2, pruning/tools/          *)
(* task_generator.py): the function-based schedules AGP, Linear and        *)
(* LotteryTicket and the SimulatedAnnealing search, driven in the closed   *)
(* loop "emit a task, run it, feed its result back".                       *)
(*                                                                         *)
(* Python floats are modelled as exact rationals <<numerator, denominator>>*)
(* in lowest terms with a positive denominator.                            *)
(***************************************************************************)
EXTENDS Integers, Sequences, FiniteSets, TLC

(***************************************************************************)
(* Bounds of the model.                                                    *)
(***************************************************************************)
MaxIter == 2          \* total_iteration ranges over 1..MaxIter in the closed loop
MaxFnIter == 10       \* total_iteration ranges over 1..MaxFnIter for the schedule alone
RootMax == 4          \* numerators and denominators searched for an exact n-th root
MaxRecalls == 1       \* calls of generate_tasks made after the run has ended

(***************************************************************************)
(* Rational arithmetic standing for the float arithmetic of the code.      *)
(***************************************************************************)
\* Each operator takes its operands through a one-element set, so that an operand
\* is evaluated once however often the operator uses it.
Val(S) == CHOOSE v \in S : TRUE

Abs(x) == IF x < 0 THEN -x ELSE x

RECURSIVE GCD(_, _)
GCD(a, b) == Val({ IF y = 0 THEN x ELSE GCD(y, x % y) : x \in {a}, y \in {b} })

Rat(n, d) ==
    Val({ LET s == IF y < 0 THEN -1 ELSE 1
              g == GCD(Abs(x), Abs(y))
          IN  <<(s * x) \div g, (s * y) \div g>> : x \in {n}, y \in {d} })

Zero == <<0, 1>>
One == <<1, 1>>

\* the operands are in lowest terms; common factors are cancelled before multiplying
RAdd(a, b) ==
    Val({ LET g == GCD(x[2], y[2])
          IN  Rat(x[1] * (y[2] \div g) + y[1] * (x[2] \div g), (x[2] \div g) * y[2]) :
          x \in {a}, y \in {b} })
RNeg(a) == Val({ <<-x[1], x[2]>> : x \in {a} })
RSub(a, b) == RAdd(a, RNeg(b))
RMul(a, b) ==
    Val({ LET g1 == GCD(Abs(x[1]), y[2])
              g2 == GCD(Abs(y[1]), x[2])
          IN  Rat((x[1] \div g1) * (y[1] \div g2), (x[2] \div g2) * (y[2] \div g1)) :
          x \in {a}, y \in {b} })
RInv(a) == Val({ IF x[1] < 0 THEN <<-x[2], -x[1]>> ELSE <<x[2], x[1]>> : x \in {a} })
RDiv(a, b) == RMul(a, RInv(b))
RLt(a, b) ==
    Val({ LET g == GCD(x[2], y[2])
          IN  x[1] * (y[2] \div g) < y[1] * (x[2] \div g) : x \in {a}, y \in {b} })
RLe(a, b) == ~RLt(b, a)
RMax(a, b) == Val({ IF RLt(x, y) THEN y ELSE x : x \in {a}, y \in {b} })

RECURSIVE RPow(_, _)
RPow(a, k) == Val({ IF k = 0 THEN One ELSE RMul(x, RPow(x, k - 1)) : x \in {a} })

\* b ** (i / n) of line 137, on the bases whose n-th root is rational.
RootCandidates == {Rat(p, q) : p \in 0..RootMax, q \in 1..RootMax}
HasRoot(b, n) == \E r \in RootCandidates : RPow(r, n) = b
FracPow(b, i, n) ==
    IF i % n = 0
    THEN RPow(b, i \div n)
    ELSE RPow(CHOOSE r \in RootCandidates : RPow(r, n) = b, i)

(***************************************************************************)
(* The temperature of the annealing.  It is multiplied by cool_down_rate   *)
(* many times over, so its numerator and denominator are held as naturals  *)
(* of any size: lists of digits in base WideBase, lowest digit first.      *)
(***************************************************************************)
WideBase == 10000

RECURSIVE Wide(_)
Wide(n) == IF n = 0 THEN <<>> ELSE <<n % WideBase>> \o Wide(n \div WideBase)

RECURSIVE WideInt(_)
WideInt(w) == IF w = <<>> THEN 0 ELSE Head(w) + WideBase * WideInt(Tail(w))

RECURSIVE WideMulCarry(_, _, _)
WideMulCarry(w, m, carry) ==
    IF w = <<>> THEN Wide(carry)
    ELSE LET p == Val({Head(w) * m + carry})
         IN  <<p % WideBase>> \o WideMulCarry(Tail(w), m, p \div WideBase)

\* a natural of any size times an int
WideMul(w, m) == IF m = 0 THEN <<>> ELSE WideMulCarry(w, m, 0)

WideLt(a, b) ==
    IF Len(a) # Len(b) THEN Len(a) < Len(b)
    ELSE \E i \in 1..Len(a) : a[i] < b[i] /\ \A j \in (i + 1)..Len(a) : a[j] = b[j]

\* the float start_temperature as a temperature (line 175)
Temperature(r) == <<Wide(r[1]), Wide(r[2])>>
\* the temperature as a float of the sparsity arithmetic (line 262)
TemperatureRat(t) == Rat(WideInt(t[1]), WideInt(t[2]))

CoolDownKeeps(t, rate) == t
CoolDownByNumerator(t, rate) == <<WideMul(t[1], rate[1]), t[2]>>

CoolDownDivides(t, rate) == <<WideMul(t[1], rate[2]), WideMul(t[2], rate[1])>>

\* self.current_temperature *= self.cool_down_rate
CoolDown(t, rate) == <<WideMul(t[1], rate[1]), WideMul(t[2], rate[2])>>

BelowStopNever(t, stop) == FALSE
BelowStopReversed(t, stop) == WideLt(WideMul(t[2], stop[1]), WideMul(t[1], stop[2]))
BelowStopOrEqual(t, stop) == ~WideLt(WideMul(t[2], stop[1]), WideMul(t[1], stop[2]))

\* self.current_temperature < self.stop_temperature
BelowStop(t, stop) == WideLt(WideMul(t[1], stop[2]), WideMul(t[2], stop[1]))

(***************************************************************************)
(* The generator classes, ops and inputs.                                  *)
(***************************************************************************)
AGP == "AGP"
Linear == "Linear"
LotteryTicket == "LotteryTicket"
SimulatedAnnealing == "SimulatedAnnealing"
FunctionBased == {AGP, Linear, LotteryTicket}

Origin == -1          \* the task id 'origin' of the synthetic first result
None == <<>>           \* Python's None; a value x that may be None is held as <<x>>
Some(x) == <<x>>
NoError == "none"     \* the last call raised nothing

\* canonical groups produced by config_list_canonical: the op names of each group
Layouts == { <<{"a", "b", "c"}>>, <<{"a", "b"}, {"c"}>> }
Targets == {Zero, Rat(1, 2), Rat(3, 4)}
\* what compute_sparsity reports for a result, one value per group
Achieved == {Zero, Rat(1, 5), Rat(1, 2)}
AchievedLists(n) ==
    { [g \in 1..n |-> Zero],
      [g \in 1..n |-> IF g = 1 THEN Rat(1, 5) ELSE Rat(1, 2)],
      [g \in 1..n |-> IF g = 1 THEN Rat(1, 2) ELSE Rat(1, 5)] }

TargetLists(layout) ==
    { [g \in 1..Len(layout) |-> [op_names |-> layout[g], total_sparsity |-> tv[g]]] :
        tv \in [1..Len(layout) -> Targets] }

VARIABLES
    kind,               \* the class of the generator instance
    total_iteration,    \* self.total_iteration
    current_iteration,  \* self.current_iteration
    target_sparsity,    \* self.target_sparsity: list of {op_names, total_sparsity}
    task_id_candidate,  \* self._task_id_candidate
    tasks,              \* self._tasks: task id -> Task
    files,              \* the paths written under the intermediate result dir
    dumped,             \* the last config list document written: <<path, config list>>
    raised,             \* the exception the last call raised, or None
    returned,           \* the list the last generate_tasks call returned
    pending_tasks,      \* the tasks handed out by the generator, not yet taken
    running,            \* the ids of the tasks the executor is running
    started,            \* init_pending_tasks has been called
    ncalls,             \* number of generate_tasks calls so far
    recalls,            \* number of calls made after the run ended
    emitted,            \* history: ids of the tasks returned, in order
    schedule_calls,     \* history: iteration arguments of generate_config_list, in order
    last_call,          \* history: inputs and result of the last generate_config_list
    weights_numel,      \* self.weights_numel: op name -> number of weight elements
    masked_rate,        \* self.masked_rate: op name -> fraction masked by origin_masks
    start_temperature,      \* self.start_temperature
    stop_temperature,       \* self.stop_temperature
    cool_down_rate,         \* self.cool_down_rate
    perturbation_magnitude, \* self.perturbation_magnitude
    current_temperature,    \* self.current_temperature
    target_sparsity_list,   \* self.target_sparsity_list, after _adjust_target_sparsity
    temp_config_list,       \* self._temp_config_list
    temp_sparsity_list,     \* self._temp_sparsity_list
    current_sparsity_list,  \* self._current_sparsity_list
    current_score,          \* self._current_score
    temp_paths              \* self.temp_model_path and self.temp_masks_path

\* the fields of a function-based generator
fbvars == <<total_iteration, current_iteration, target_sparsity>>
\* the fields of a SimulatedAnnealing generator that never change after construction
saconst == <<weights_numel, masked_rate, target_sparsity_list, start_temperature,
             stop_temperature, cool_down_rate, perturbation_magnitude>>
\* the search state of a SimulatedAnnealing generator
savars == <<current_temperature, temp_config_list, temp_sparsity_list, current_sparsity_list,
            current_score, temp_paths>>
\* the fields of the base class
basevars == <<task_id_candidate, tasks, files, dumped>>
\* the executor's side and the history
loopvars == <<raised, returned, pending_tasks, running, started, ncalls, recalls,
              emitted, schedule_calls, last_call>>

vars == <<kind, fbvars, saconst, savars, basevars, loopvars>>

(***************************************************************************)
(* generate_config_list of the three schedules.                            *)
(***************************************************************************)
OriSparsityQuadratic(k, T, iteration, total) ==
    CASE k = AGP ->
            RMul(RSub(One, RPow(RSub(One, Rat(iteration, total)), 2)), T)
      [] k = Linear ->
            RMul(Rat(iteration, total), T)
      [] k = LotteryTicket ->
            RSub(One, FracPow(RSub(One, T), iteration, total))

\* the cumulative target ori_sparsity of lines 105, 117 and 137
OriSparsity(k, T, iteration, total) ==
    CASE k = AGP ->
            RMul(RSub(One, RPow(RSub(One, Rat(iteration, total)), 3)), T)
      [] k = Linear ->
            RMul(Rat(iteration, total), T)
      [] k = LotteryTicket ->
            RSub(One, FracPow(RSub(One, T), iteration, total))

IncrementalSparsityUnclamped(ori, mo) == RDiv(RSub(ori, mo), RSub(One, mo))
IncrementalSparsityDifference(ori, mo) == RMax(Zero, RSub(ori, mo))

\* sparsity = max(0.0, (ori_sparsity - mo) / (1 - mo))
IncrementalSparsity(ori, mo) ==
    RMax(Zero, RDiv(RSub(ori, mo), RSub(One, mo)))

SparsityAssertLowerOnly(sparsity) == RLe(Zero, sparsity)

\* assert 0 <= sparsity <= 1
SparsityAssert(sparsity) == RLe(Zero, sparsity) /\ RLe(sparsity, One)

GenerateConfigList(k, targets, iteration, total, compact2origin) ==
    LET n == IF Len(targets) < Len(compact2origin) THEN Len(targets) ELSE Len(compact2origin)
        sp(g) == IncrementalSparsity(
                     OriSparsity(k, targets[g].total_sparsity, iteration, total),
                     compact2origin[g])
    IN  [ ok |-> \A g \in 1..n : SparsityAssert(sp(g)),
          ori_sparsity |-> [g \in 1..n |->
                              OriSparsity(k, targets[g].total_sparsity, iteration, total)],
          config_list |-> [g \in 1..n |-> [targets[g] EXCEPT !.total_sparsity = sp(g)]] ]

(***************************************************************************)
(* FunctionBasedTaskGenerator.generate_tasks                               *)
(***************************************************************************)
ModelPathOfOrigin(id) == <<Origin, "compact_model.pth">>

ModelPath(id) == <<id, "compact_model.pth">>
MasksPathOfOrigin(id) == <<Origin, "compact_model_masks.pth">>

MasksPath(id) == <<id, "compact_model_masks.pth">>
ConfigListPath(id) == <<id, "config_list.json">>

SaveNothing(files0, paths) == files0

\* torch.save and json_tricks.dump: the paths are written when the call returns
Save(files0, paths) == files0 \cup paths

NewTask(task_id, model_path, masks_path, config_list_path) ==
    [ task_id |-> task_id, model_path |-> model_path, masks_path |-> masks_path,
      config_list_path |-> config_list_path, score |-> None, state |-> None ]

NoMoreTasksAtTotal(iteration, total) == iteration >= total
NoMoreTasksLate(iteration, total) == iteration > total + 1

\* line 79: if self.current_iteration > self.total_iteration
NoMoreTasks(iteration, total) == iteration > total

NextIterationSkips(iteration) == iteration + 2
NextIterationStuck(iteration) == iteration

\* line 93: self.current_iteration += 1
NextIteration(iteration) == iteration + 1

NextTaskIdReused(candidate) == candidate

\* lines 92 and 331: self._task_id_candidate += 1
NextTaskId(candidate) == candidate + 1

ReturnListTwice(task) == <<task, task>>

\* lines 95 and 333: return [task]
ReturnList(task) == <<task>>

AttachStateNever(tasks0, task_result) == tasks0

\* lines 75-76: the metrics of the result are put on the record of its task
AttachState(tasks0, task_result) ==
    IF task_result.task_id # Origin
    THEN [tasks0 EXCEPT ![task_result.task_id].state = Some(task_result.current2origin)]
    ELSE tasks0

FunctionBasedGenerateTasks(task_result, tasks0) ==
    LET model_path == ModelPath(task_result.task_id)
        masks_path == MasksPath(task_result.task_id)
        saved == Save(files, {model_path, masks_path})
        noted == AttachState(tasks0, task_result)
        task_id == task_id_candidate
        res == GenerateConfigList(kind, target_sparsity, current_iteration, total_iteration,
                                  task_result.compact2origin)
        config_list_path == ConfigListPath(task_id)
        task == NewTask(task_id, model_path, masks_path, config_list_path)
    IN  /\ ncalls' = ncalls + 1
        /\ IF NoMoreTasks(current_iteration, total_iteration)
           THEN /\ files' = saved
                /\ tasks' = noted
                /\ returned' = <<>>
                /\ raised' = NoError
                /\ UNCHANGED <<dumped, task_id_candidate, current_iteration, emitted,
                               schedule_calls, last_call>>
           ELSE /\ schedule_calls' = Append(schedule_calls, current_iteration)
                /\ last_call' = Some([ iteration |-> current_iteration,
                                  total |-> total_iteration,
                                  targets |-> target_sparsity,
                                  achieved |-> task_result.compact2origin,
                                  ok |-> res.ok,
                                  ori_sparsity |-> res.ori_sparsity,
                                  config_list |-> res.config_list ])
                /\ IF ~res.ok
                   THEN /\ raised' = "AssertionError"
                        /\ files' = saved
                        /\ tasks' = noted
                        /\ returned' = <<>>
                        /\ UNCHANGED <<dumped, task_id_candidate, current_iteration, emitted>>
                   ELSE /\ raised' = NoError
                        /\ files' = Save(saved, {config_list_path})
                        /\ dumped' = <<config_list_path, res.config_list>>
                        /\ tasks' = (task_id :> task) @@ noted
                        /\ task_id_candidate' = NextTaskId(task_id_candidate)
                        /\ current_iteration' = NextIteration(current_iteration)
                        /\ returned' = ReturnList(task)
                        /\ emitted' = Append(emitted, task_id)
        /\ UNCHANGED <<total_iteration, target_sparsity, saconst, savars>>


(***************************************************************************)
(* SimulatedAnnealingTaskGenerator: the allocator                          *)
(***************************************************************************)
MaxTasks == 3         \* the SimulatedAnnealing loop is followed up to this many tasks

\* the order of the ops in weights_numel (a dict keeps insertion order)
OpOrder == <<"a", "b", "c">>
OpIndex(op) == CHOOSE i \in 1..Len(OpOrder) : OpOrder[i] = op

WeightTables == { [a |-> 4, b |-> 8, c |-> 6] }
MaskedRates == { <<>>, [c |-> Rat(1, 2)] }
Scores == {0, 1}
\* the values np.random.uniform(0, 1) is drawn from
DrawGrid == {Rat(1, 4), Rat(3, 4)}
\* the values np.random.uniform(-magnitude, magnitude) is drawn from
PerturbGrid(magnitude) == {RNeg(magnitude), magnitude}

RECURSIVE SumRat(_)
SumRat(seq) == IF seq = <<>> THEN Zero ELSE RAdd(Head(seq), SumRat(Tail(seq)))

\* sorted(...) of a list of floats
RECURSIVE SortRat(_)
SortRat(seq) ==
    IF Len(seq) <= 1 THEN seq
    ELSE LET i == CHOOSE j \in 1..Len(seq) : \A k \in 1..Len(seq) : RLe(seq[j], seq[k])
             rest == [k \in 1..(Len(seq) - 1) |-> IF k < i THEN seq[k] ELSE seq[k + 1]]
         IN  <<seq[i]>> \o SortRat(rest)

\* the ops of op_names in ascending order of weights_numel (a stable sort)
RECURSIVE SortedOps(_, _)
SortedOps(op_names, numel) ==
    IF op_names = {} THEN <<>>
    ELSE LET first == CHOOSE x \in op_names : \A y \in op_names \ {x} :
                         \/ numel[x] < numel[y]
                         \/ numel[x] = numel[y] /\ OpIndex(x) < OpIndex(y)
         IN  <<first>> \o SortedOps(op_names \ {first}, numel)

\* int(x) of a float
IntOf(x) == IF x[1] >= 0 THEN x[1] \div x[2] ELSE -((-x[1]) \div x[2])

RECURSIVE SumSeq(_)
SumSeq(seq) == IF seq = <<>> THEN 0 ELSE Head(seq) + SumSeq(Tail(seq))

AdjustTargetSparsityUnclamped(target_list, numel, masked) ==
    IF DOMAIN masked = {} THEN target_list
    ELSE [g \in 1..Len(target_list) |->
            LET names == SortedOps(target_list[g].op_names, numel)
                remaining == SumRat([i \in 1..Len(names) |-> Rat(numel[names[i]], 1)])
                pruned ==
                    SumRat([i \in 1..Len(names) |->
                              IF names[i] \in DOMAIN masked
                              THEN RMul(RDiv(One, RSub(RDiv(One, masked[names[i]]), One)),
                                        Rat(numel[names[i]], 1))
                              ELSE Zero])
            IN  [target_list[g] EXCEPT !.total_sparsity =
                    RSub(target_list[g].total_sparsity,
                         RDiv(pruned, RAdd(pruned, remaining)))]]

\* _adjust_target_sparsity
AdjustTargetSparsity(target_list, numel, masked) ==
    IF DOMAIN masked = {} THEN target_list
    ELSE [g \in 1..Len(target_list) |->
            LET config == target_list[g]
                names == SortedOps(config.op_names, numel)
                remaining_weight_numel ==
                    SumRat([i \in 1..Len(names) |-> Rat(numel[names[i]], 1)])
                pruned_weight_numel ==
                    SumRat([i \in 1..Len(names) |->
                              IF names[i] \in DOMAIN masked
                              THEN RMul(RDiv(One, RSub(RDiv(One, masked[names[i]]), One)),
                                        Rat(numel[names[i]], 1))
                              ELSE Zero])
            IN  [config EXCEPT !.total_sparsity =
                    RMax(Zero, RSub(config.total_sparsity,
                                    RDiv(pruned_weight_numel,
                                         RAdd(pruned_weight_numel, remaining_weight_numel))))]]

RescaleSparsityNoneBelowTwo(random_sparsity, target, op_names, numel) ==
    LET ops == SortedOps(op_names, numel)
        sparsity == SortRat(random_sparsity)
        total_weights == SumSeq([i \in 1..Len(ops) |-> numel[ops[i]]])
        total_weights_pruned ==
            SumSeq([i \in 1..Len(ops) |-> IntOf(RMul(Rat(numel[ops[i]], 1), sparsity[i]))])
    IN  IF total_weights_pruned <= 1 THEN None
        ELSE [i \in 1..Len(sparsity) |->
                RMul(sparsity[i], RDiv(target, Rat(total_weights_pruned, total_weights)))]

\* _rescale_sparsity
RescaleSparsity(random_sparsity, target, op_names, numel) ==
    LET ops == SortedOps(op_names, numel)
        num_weights == [i \in 1..Len(ops) |-> numel[ops[i]]]
        sparsity == SortRat(random_sparsity)
        total_weights == SumSeq(num_weights)
        total_weights_pruned ==
            SumSeq([i \in 1..Len(num_weights) |->
                       IntOf(RMul(Rat(num_weights[i], 1), sparsity[i]))])
        scale == RDiv(target, Rat(total_weights_pruned, total_weights))
    IN  IF total_weights_pruned = 0 THEN None
        ELSE [i \in 1..Len(sparsity) |-> RMul(sparsity[i], scale)]

FeasibleWithoutUpperBound(rescaled) == rescaled # None /\ RLe(Zero, rescaled[1])

\* the test that ends a rejection-sampling loop
Feasible(rescaled) ==
    /\ rescaled # None
    /\ RLe(Zero, rescaled[1])
    /\ RLt(rescaled[Len(rescaled)], One)

SparsityToConfigListDescending(sparsity, config, numel) ==
    LET sorted == SortRat(sparsity)
        op_names == SortedOps(config.op_names, numel)
        n == Len(sorted)
    IN  [i \in 1..n |-> [total_sparsity |-> sorted[i], op_names |-> {op_names[n + 1 - i]}]]

\* _sparsity_to_config_list
SparsityToConfigList(sparsity, config, numel) ==
    LET sorted == SortRat(sparsity)
        op_names == SortedOps(config.op_names, numel)
    IN  [i \in 1..Len(sorted) |-> [total_sparsity |-> sorted[i], op_names |-> {op_names[i]}]]

InitConfigSparsityNoSkip(config, numel) ==
    LET n == Cardinality(config.op_names)
        rescaled(draw) == RescaleSparsity(SortRat(draw), config.total_sparsity,
                                          config.op_names, numel)
    IN  { rescaled(draw) : draw \in {d \in [1..n -> DrawGrid] : Feasible(rescaled(d))} }

\* _init_config_sparsity: the sparsity vectors its loop can end with
InitConfigSparsity(config, numel) ==
    IF config.total_sparsity = Zero THEN {<<>>}
    ELSE LET n == Cardinality(config.op_names)
             rescaled(draw) == RescaleSparsity(SortRat(draw), config.total_sparsity,
                                               config.op_names, numel)
         IN  { rescaled(draw) : draw \in {d \in [1..n -> DrawGrid] : Feasible(rescaled(d))} }

\* the perturbation loop of _update_with_perturbations for one group
PerturbSparsity(config, current_sparsity, magnitude, numel) ==
    IF Len(current_sparsity) = 0 THEN {<<>>}
    ELSE LET n == Len(current_sparsity)
             temp(pert) == [i \in 1..n |-> RMax(Zero, RAdd(current_sparsity[i], pert[i]))]
             rescaled(pert) == RescaleSparsity(temp(pert), config.total_sparsity,
                                               config.op_names, numel)
         IN  { rescaled(pert) :
                 pert \in {d \in [1..n -> PerturbGrid(magnitude)] : Feasible(rescaled(d))} }

\* the lists that take one element of each set of a list of sets
RECURSIVE ListsOf(_)
ListsOf(sets) ==
    IF sets = <<>> THEN {<<>>}
    ELSE { <<x>> \o rest : x \in Head(sets), rest \in ListsOf(Tail(sets)) }

\* _init_temp_config_list: the values of _temp_sparsity_list it can leave
InitTempSparsityLists(target_list, numel) ==
    ListsOf([g \in 1..Len(target_list) |-> InitConfigSparsity(target_list[g], numel)])

\* _update_with_perturbations: the values of _temp_sparsity_list it can leave
UpdateWithPerturbations(target_list, current_list, cur_temp, start_temp, magnitude0, numel) ==
    LET magnitude == RMul(RDiv(TemperatureRat(cur_temp), start_temp), magnitude0)
        n == IF Len(target_list) < Len(current_list) THEN Len(target_list)
             ELSE Len(current_list)
    IN  ListsOf([g \in 1..n |->
                    PerturbSparsity(target_list[g], current_list[g], magnitude, numel)])

RECURSIVE Flatten(_)
Flatten(lists) == IF lists = <<>> THEN <<>> ELSE Head(lists) \o Flatten(Tail(lists))

\* the _temp_config_list that goes with a _temp_sparsity_list
TempConfigList(target_list, sparsity_list, numel) ==
    Flatten([g \in 1..Len(sparsity_list) |->
                IF sparsity_list[g] = <<>> THEN <<>>
                ELSE SparsityToConfigList(sparsity_list[g], target_list[g], numel)])

RecoverRealSparsityTwice(config_list, masked) ==
    LET once(list) ==
            [i \in 1..Len(list) |->
                LET op_name == CHOOSE x \in list[i].op_names : TRUE
                IN  IF op_name \in DOMAIN masked
                    THEN [list[i] EXCEPT !.total_sparsity =
                             RAdd(masked[op_name],
                                  RMul(list[i].total_sparsity, RSub(One, masked[op_name])))]
                    ELSE list[i]]
    IN  once(once(config_list))

\* _recover_real_sparsity
RecoverRealSparsity(config_list, masked) ==
    [i \in 1..Len(config_list) |->
        LET config == config_list[i]
            op_name == CHOOSE x \in config.op_names : TRUE
        IN  IF op_name \in DOMAIN masked
            THEN [config EXCEPT !.total_sparsity =
                     RAdd(masked[op_name],
                          RMul(config.total_sparsity, RSub(One, masked[op_name])))]
            ELSE config]

(***************************************************************************)
(* SimulatedAnnealingTaskGenerator.generate_tasks                          *)
(***************************************************************************)
\* lines 320-333: the candidate is exported and wrapped in a new Task
SAEmitTask(new_temp_sparsity_list, tasks0, files0, paths0) ==
    LET new_temp_config_list ==
            TempConfigList(target_sparsity_list, new_temp_sparsity_list, weights_numel)
        task_id == task_id_candidate
        new_config_list == RecoverRealSparsity(new_temp_config_list, masked_rate)
        config_list_path == ConfigListPath(task_id)
        task == NewTask(task_id, paths0[1], paths0[2], config_list_path)
    IN  /\ temp_sparsity_list' = new_temp_sparsity_list
        /\ temp_config_list' = Some(new_temp_config_list)
        /\ files' = Save(files0, {config_list_path})
        /\ dumped' = <<config_list_path, new_config_list>>
        /\ tasks' = (task_id :> task) @@ tasks0
        /\ task_id_candidate' = NextTaskId(task_id_candidate)
        /\ returned' = ReturnList(task)
        /\ emitted' = Append(emitted, task_id)

AcceptsOnDrawOnly(current, score, accept_draw) == accept_draw
AcceptsNotWorse(current, score, accept_draw) == current <= score

\* line 312: self._current_score < score or np.random.uniform(0, 1) < probability
Accepts(current, score, accept_draw) == current < score \/ accept_draw

SAUpdateKeepsCandidate(score, accept_draw) ==
    IF current_sparsity_list = None \/ Accepts(current_score[1], score, accept_draw)
    THEN [ sparsity |-> Some(temp_sparsity_list), score |-> Some(score),
           temperature |-> IF current_sparsity_list = None THEN current_temperature
                           ELSE CoolDown(current_temperature, cool_down_rate) ]
    ELSE [ sparsity |-> Some(temp_sparsity_list), score |-> current_score,
           temperature |-> current_temperature ]

SAUpdateCoolsOnAdoption(score, accept_draw) ==
    IF current_sparsity_list = None \/ Accepts(current_score[1], score, accept_draw)
    THEN [ sparsity |-> Some(temp_sparsity_list), score |-> Some(score),
           temperature |-> CoolDown(current_temperature, cool_down_rate) ]
    ELSE [ sparsity |-> current_sparsity_list, score |-> current_score,
           temperature |-> current_temperature ]

\* lines 305-315: the state after the score of the previous candidate is taken in;
\* accept_draw says whether np.random.uniform(0, 1) < probability
SAUpdate(score, accept_draw) ==
    IF current_sparsity_list = None
    THEN [ sparsity |-> Some(temp_sparsity_list), score |-> Some(score),
           temperature |-> current_temperature ]
    ELSE IF Accepts(current_score[1], score, accept_draw)
         THEN [ sparsity |-> Some(temp_sparsity_list), score |-> Some(score),
                temperature |-> CoolDown(current_temperature, cool_down_rate) ]
         ELSE [ sparsity |-> current_sparsity_list, score |-> current_score,
                temperature |-> current_temperature ]

\* the outcomes np.random.uniform(0, 1) < exp(-delta_E / temperature) can have:
\* the probability is 1 when delta_E is 0 and lies strictly between 0 and 1 otherwise
AcceptDraws(score) ==
    IF current_score # None /\ Abs(score - current_score[1]) = 0 THEN {TRUE} ELSE BOOLEAN

SAGenerateTasks(task_result, tasks0, files0, paths0) ==
    /\ ncalls' = ncalls + 1
    /\ raised' = NoError
    /\ IF temp_config_list = None
       THEN /\ \E new \in InitTempSparsityLists(target_sparsity_list, weights_numel) :
                 SAEmitTask(new, tasks0, files0, paths0)
            /\ UNCHANGED <<current_sparsity_list, current_score, current_temperature>>
       ELSE \E accept_draw \in AcceptDraws(tasks0[task_result.task_id].score[1]) :
              LET upd == SAUpdate(tasks0[task_result.task_id].score[1], accept_draw)
              IN  /\ current_sparsity_list' = upd.sparsity
                  /\ current_score' = upd.score
                  /\ current_temperature' = upd.temperature
                  /\ IF BelowStop(upd.temperature, stop_temperature)
                     THEN /\ returned' = <<>>
                          /\ tasks' = tasks0
                          /\ files' = files0
                          /\ UNCHANGED <<temp_config_list, temp_sparsity_list, dumped,
                                         task_id_candidate, emitted>>
                     ELSE \E new \in UpdateWithPerturbations(
                                        target_sparsity_list, upd.sparsity[1], upd.temperature,
                                        start_temperature, perturbation_magnitude,
                                        weights_numel) :
                            SAEmitTask(new, tasks0, files0, paths0)
    /\ UNCHANGED <<fbvars, saconst, schedule_calls, last_call>>

(***************************************************************************)
(* The closed loop around a generator: construction, init_pending_tasks,   *)
(* the executor taking the pending task, and its result being fed back.    *)
(***************************************************************************)
OriginModelPath == <<Origin, "model.pth">>
OriginMasksPath == <<Origin, "masks.pth">>

NGroups == IF kind = SimulatedAnnealing THEN Len(target_sparsity_list) ELSE Len(target_sparsity)

\* the results the executor can produce for task id: what compute_sparsity will
\* report for it (nothing is pruned in the 'origin' model), and its score
TaskResults(id) ==
    { [task_id |-> id, compact2origin |-> a, current2origin |-> a, score |-> s] :
        a \in IF kind = SimulatedAnnealing THEN {None}
              ELSE IF id = Origin THEN {[g \in 1..NGroups |-> Zero]}
              ELSE AchievedLists(NGroups),
        s \in IF kind = SimulatedAnnealing /\ id # Origin THEN {Some(x) : x \in Scores}
              ELSE {None} }

InitFunctionBased(iters) ==
    /\ kind \in FunctionBased
    /\ total_iteration \in iters
    /\ current_iteration = IF kind = LotteryTicket THEN 1 ELSE 0
    /\ \E layout \in Layouts : target_sparsity \in TargetLists(layout)
    /\ kind = LotteryTicket =>
          \A g \in 1..Len(target_sparsity) :
             \/ total_iteration = 1
             \/ HasRoot(RSub(One, target_sparsity[g].total_sparsity), total_iteration)
    /\ weights_numel = None
    /\ masked_rate = None
    /\ target_sparsity_list = None
    /\ start_temperature = None
    /\ stop_temperature = None
    /\ cool_down_rate = None
    /\ perturbation_magnitude = None
    /\ current_temperature = None
    /\ temp_config_list = None
    /\ temp_sparsity_list = None
    /\ current_sparsity_list = None
    /\ current_score = None
    /\ temp_paths = None

StartTemperatures == {Rat(2, 1)}
StopTemperatures == {Rat(1, 1), Rat(3, 1)}
SALayouts == { <<{"a", "b"}, {"c"}>> }
\* the total_sparsity of the groups of an origin_config_list
SATargets == { <<Zero, Rat(1, 2)>>, <<Rat(1, 2), Rat(3, 4)>>,
               <<Rat(3, 4), Rat(1, 2)>>, <<Rat(3, 4), Zero>> }
SATargetLists ==
    { [g \in 1..Len(layout) |-> [op_names |-> layout[g], total_sparsity |-> tv[g]]] :
        layout \in SALayouts, tv \in SATargets }
CoolDownRates == {Rat(1, 2)}
PerturbationMagnitudes == {Rat(1, 4)}

InitSimulatedAnnealing ==
    /\ kind = SimulatedAnnealing
    /\ total_iteration = None
    /\ current_iteration = None
    /\ target_sparsity = None
    /\ start_temperature \in StartTemperatures
    /\ current_temperature = Temperature(start_temperature)
    /\ stop_temperature \in StopTemperatures
    /\ cool_down_rate \in CoolDownRates
    /\ perturbation_magnitude \in PerturbationMagnitudes
    /\ weights_numel \in WeightTables
    /\ masked_rate \in MaskedRates
    /\ \E origin \in SATargetLists :
          target_sparsity_list = AdjustTargetSparsity(origin, weights_numel, masked_rate)
    /\ temp_config_list = None
    /\ temp_sparsity_list = None
    /\ current_sparsity_list = None
    /\ current_score = None
    /\ temp_paths = None

InitBase ==
    /\ task_id_candidate = 0
    /\ tasks = <<>>
    /\ files = {OriginModelPath, OriginMasksPath}
    /\ dumped = None
    /\ raised = NoError
    /\ returned = <<>>
    /\ pending_tasks = <<>>
    /\ running = <<>>
    /\ started = FALSE
    /\ ncalls = 0
    /\ recalls = 0
    /\ emitted = <<>>
    /\ schedule_calls = <<>>
    /\ last_call = None

Init ==
    /\ InitFunctionBased(1..MaxIter) \/ InitSimulatedAnnealing
    /\ InitBase

\* the number of tasks up to which the loop is followed
TaskBudget == IF kind \in FunctionBased THEN MaxIter + 1 ELSE MaxTasks

TaskIds(list) == [i \in 1..Len(list) |-> list[i].task_id]

\* FunctionBasedTaskGenerator.init_pending_tasks
FBInitPendingTasks ==
    /\ kind \in FunctionBased
    /\ ~started
    /\ started' = TRUE
    /\ \E task_result \in TaskResults(Origin) : FunctionBasedGenerateTasks(task_result, tasks)
    /\ pending_tasks' = pending_tasks \o TaskIds(returned')
    /\ UNCHANGED <<kind, running, recalls>>

\* SimulatedAnnealingTaskGenerator.init_pending_tasks
SAInitPendingTasks ==
    /\ kind = SimulatedAnnealing
    /\ ~started
    /\ started' = TRUE
    /\ temp_paths' = <<ModelPath(Origin), MasksPath(Origin)>>
    /\ \E task_result \in TaskResults(Origin) :
          SAGenerateTasks(task_result, tasks,
                          Save(files, {ModelPath(Origin), MasksPath(Origin)}), temp_paths')
    /\ pending_tasks' = pending_tasks \o TaskIds(returned')
    /\ UNCHANGED <<kind, running, recalls>>

\* TaskGenerator.next: the executor takes the first pending task
NextTask ==
    /\ started
    /\ raised = NoError
    /\ pending_tasks # <<>>
    /\ running' = Append(running, Head(pending_tasks))
    /\ pending_tasks' = Tail(pending_tasks)
    /\ UNCHANGED <<kind, fbvars, saconst, savars, basevars, raised, returned, started,
                   ncalls, recalls, emitted, schedule_calls, last_call>>

\* generate_tasks of the instance's class, called by receive_task_result after the
\* score of the result has been recorded on its task
FeedBack(task_result) ==
    LET scored == [tasks EXCEPT ![task_result.task_id].score = task_result.score]
    IN  IF kind = SimulatedAnnealing
        THEN /\ SAGenerateTasks(task_result, scored, files, temp_paths)
             /\ UNCHANGED temp_paths
        ELSE FunctionBasedGenerateTasks(task_result, scored)

\* TaskGenerator.receive_task_result: the finished task's result is fed back; the
\* loop is followed while fewer than budget + 1 tasks have been generated
Receive(budget) ==
    /\ running # <<>>
    /\ raised = NoError
    /\ task_id_candidate <= budget
    /\ \E task_result \in TaskResults(Head(running)) : FeedBack(task_result)
    /\ running' = Tail(running)
    /\ pending_tasks' = pending_tasks \o TaskIds(returned')
    /\ UNCHANGED <<kind, started, recalls>>

ReceiveTaskResult == Receive(TaskBudget)

\* a further result fed back after the run has ended, for a task already finished
CallAfterEnd ==
    /\ started
    /\ raised = NoError
    /\ pending_tasks = <<>>
    /\ running = <<>>
    /\ returned = <<>>
    /\ recalls < MaxRecalls
    /\ recalls' = recalls + 1
    /\ \E id \in DOMAIN tasks : \E task_result \in TaskResults(id) : FeedBack(task_result)
    /\ pending_tasks' = pending_tasks \o TaskIds(returned')
    /\ UNCHANGED <<kind, running, started>>

Next ==
    \/ FBInitPendingTasks
    \/ SAInitPendingTasks
    \/ NextTask
    \/ ReceiveTaskResult
    \/ CallAfterEnd

Spec == Init /\ [][Next]_vars

(***************************************************************************)
(* The function-based generators alone, with the loop never abandoned.     *)
(***************************************************************************)
InitFB ==
    /\ InitFunctionBased(1..MaxIter)
    /\ InitBase

NextFB ==
    \/ FBInitPendingTasks
    \/ NextTask
    \/ ReceiveTaskResult
    \/ CallAfterEnd

FairSpec == InitFB /\ [][NextFB]_vars /\ WF_vars(NextFB)

(***************************************************************************)
(* generate_config_list alone, on any valid iteration and achieved         *)
(* sparsity.                                                               *)
(***************************************************************************)
AchievedFn == Achieved \cup {Rat(9, 10)}
AchievedFnLists(n) == AchievedLists(n) \cup { [g \in 1..n |-> a] : a \in AchievedFn }

InitFn ==
    /\ InitFunctionBased(1..MaxFnIter)
    /\ InitBase

CallGenerateConfigList ==
    /\ last_call = None
    /\ \E iteration \in 0..total_iteration :
         \E compact2origin \in AchievedFnLists(Len(target_sparsity)) :
           LET res == GenerateConfigList(kind, target_sparsity, iteration, total_iteration,
                                         compact2origin)
           IN  /\ last_call' = Some([ iteration |-> iteration,
                                      total |-> total_iteration,
                                      targets |-> target_sparsity,
                                      achieved |-> compact2origin,
                                      ok |-> res.ok,
                                      ori_sparsity |-> res.ori_sparsity,
                                      config_list |-> res.config_list ])
               /\ raised' = IF res.ok THEN NoError ELSE "AssertionError"
               /\ UNCHANGED <<kind, fbvars, saconst, savars, basevars, returned, pending_tasks,
                              running, started, ncalls, recalls, emitted, schedule_calls>>

NextFn == CallGenerateConfigList

SpecFn == InitFn /\ [][NextFn]_vars

(***************************************************************************)
(* The annealing with the default temperatures of the constructor, every   *)
(* task scoring the same, so that every compared candidate is accepted.    *)
(***************************************************************************)
MaxAnnealTasks == 17

AnnealStart == Rat(100, 1)
AnnealStop == Rat(20, 1)
AnnealCoolDownRate == Rat(9, 10)
AnnealPerturbationMagnitude == Rat(7, 20)

InitAnneal ==
    /\ kind = SimulatedAnnealing
    /\ total_iteration = None
    /\ current_iteration = None
    /\ target_sparsity = None
    /\ start_temperature = AnnealStart
    /\ current_temperature = Temperature(start_temperature)
    /\ stop_temperature = AnnealStop
    /\ cool_down_rate = AnnealCoolDownRate
    /\ perturbation_magnitude = AnnealPerturbationMagnitude
    /\ weights_numel \in WeightTables
    /\ masked_rate \in MaskedRates
    /\ \E layout \in Layouts :
          target_sparsity_list =
              AdjustTargetSparsity([g \in 1..Len(layout) |->
                                       [op_names |-> layout[g], total_sparsity |-> Zero]],
                                   weights_numel, masked_rate)
    /\ temp_config_list = None
    /\ temp_sparsity_list = None
    /\ current_sparsity_list = None
    /\ current_score = None
    /\ temp_paths = None
    /\ InitBase

\* every finished task has the same score
SteadyScore == \A id \in DOMAIN tasks' : tasks'[id].score \in {None, Some(1)}

AnnealReceiveTaskResult == Receive(MaxAnnealTasks) /\ SteadyScore

NextAnneal ==
    \/ SAInitPendingTasks
    \/ NextTask
    \/ AnnealReceiveTaskResult

SpecAnneal == InitAnneal /\ [][NextAnneal]_vars

(***************************************************************************)
(* The allocator's functions alone: _rescale_sparsity,                     *)
(* _adjust_target_sparsity and _recover_real_sparsity applied once to any  *)
(* input, on an instance with any prior masks.                             *)
(***************************************************************************)
AllocMaskedRates ==
    { <<>>, [c |-> Rat(1, 2)], [a |-> Rat(1, 4)], [a |-> Rat(1, 4), c |-> Rat(1, 2)] }
AllocLayouts == { <<{"a", "b", "c"}>>, <<{"a", "b"}, {"c"}>>, <<{"a"}, {"b"}, {"c"}>> }
AllocTargets == {Zero, Rat(1, 4), Rat(1, 2), Rat(3, 4)}
AllocTargetLists ==
    { [g \in 1..Len(layout) |-> [op_names |-> layout[g], total_sparsity |-> tv[g]]] :
        layout \in AllocLayouts, tv \in [1..3 -> AllocTargets] }
\* the fractions handed to _rescale_sparsity
FractionGrid == {Zero, Rat(1, 4), Rat(1, 2), Rat(3, 4)}
OpSets == (SUBSET {"a", "b", "c"}) \ {{}}

InitAlloc ==
    /\ kind = SimulatedAnnealing
    /\ total_iteration = None
    /\ current_iteration = None
    /\ target_sparsity = None
    /\ start_temperature \in StartTemperatures
    /\ current_temperature = Temperature(start_temperature)
    /\ stop_temperature = Rat(1, 1)
    /\ cool_down_rate \in CoolDownRates
    /\ perturbation_magnitude \in PerturbationMagnitudes
    /\ weights_numel \in WeightTables
    /\ masked_rate \in AllocMaskedRates
    /\ \E origin \in SATargetLists :
          target_sparsity_list = AdjustTargetSparsity(origin, weights_numel, masked_rate)
    /\ temp_config_list = None
    /\ temp_sparsity_list = None
    /\ current_sparsity_list = None
    /\ current_score = None
    /\ temp_paths = None
    /\ InitBase

AllocUnchanged ==
    UNCHANGED <<kind, fbvars, saconst, savars, basevars, raised, returned, pending_tasks,
                running, started, ncalls, recalls, emitted, schedule_calls>>

\* self._rescale_sparsity(random_sparsity, target_sparsity, op_names)
CallRescaleSparsity ==
    /\ last_call = None
    /\ \E op_names \in OpSets :
         \E random_sparsity \in [1..Cardinality(op_names) -> FractionGrid] :
           \E target \in AllocTargets \ {Zero} :
              last_call' = Some([ fn |-> "rescale",
                                  random_sparsity |-> random_sparsity,
                                  target |-> target,
                                  op_names |-> op_names,
                                  result |-> RescaleSparsity(random_sparsity, target, op_names,
                                                             weights_numel) ])
    /\ AllocUnchanged

\* self._adjust_target_sparsity() on a canonical origin config list
CallAdjustTargetSparsity ==
    /\ last_call = None
    /\ \E origin \in AllocTargetLists :
          last_call' = Some([ fn |-> "adjust",
                              origin |-> origin,
                              result |-> AdjustTargetSparsity(origin, weights_numel,
                                                              masked_rate) ])
    /\ AllocUnchanged

\* self._recover_real_sparsity(config_list) on the adjusted targets of single ops
CallRecoverRealSparsity ==
    /\ last_call = None
    /\ \E origin \in AllocTargetLists :
          /\ \A g \in 1..Len(origin) : Cardinality(origin[g].op_names) = 1
          /\ LET adjusted == AdjustTargetSparsity(origin, weights_numel, masked_rate)
             IN  last_call' = Some([ fn |-> "recover",
                                     origin |-> origin,
                                     config_list |-> adjusted,
                                     result |-> RecoverRealSparsity(adjusted, masked_rate) ])
    /\ AllocUnchanged

NextAlloc ==
    \/ CallRescaleSparsity
    \/ CallAdjustTargetSparsity
    \/ CallRecoverRealSparsity

SpecAlloc == InitAlloc /\ [][NextAlloc]_vars

(***************************************************************************)
(* The rejection loop of _init_config_sparsity, one iteration of its       *)
(* `while True` per step, on weight tables that include ops of a single    *)
(* element.                                                                *)
(***************************************************************************)
MaxTries == 2         \* the retries of a rejection loop that are counted

LoopWeightTables == WeightTables \cup { [a |-> 1, b |-> 1, c |-> 1] }

InitLoop ==
    /\ kind = SimulatedAnnealing
    /\ total_iteration = None
    /\ current_iteration = None
    /\ target_sparsity = None
    /\ start_temperature \in StartTemperatures
    /\ current_temperature = Temperature(start_temperature)
    /\ stop_temperature \in StopTemperatures
    /\ cool_down_rate \in CoolDownRates
    /\ perturbation_magnitude \in PerturbationMagnitudes
    /\ weights_numel \in LoopWeightTables
    /\ masked_rate \in MaskedRates
    /\ \E origin \in SATargetLists :
          target_sparsity_list = AdjustTargetSparsity(origin, weights_numel, masked_rate)
    /\ temp_config_list = None
    /\ temp_sparsity_list = None
    /\ current_sparsity_list = None
    /\ current_score = None
    /\ temp_paths = None
    /\ InitBase

\* the random vectors of one iteration of the loop, and what they rescale to
LoopDraws(config) == [1..Cardinality(config.op_names) -> DrawGrid]
LoopRescaled(config, draw) ==
    RescaleSparsity(SortRat(draw), config.total_sparsity, config.op_names, weights_numel)

\* self._init_config_sparsity(config) is entered
CallInitConfigSparsity ==
    /\ last_call = None
    /\ \E g \in 1..Len(target_sparsity_list) :
          LET config == target_sparsity_list[g]
          IN  last_call' = Some([ fn |-> "init_config_sparsity",
                                  config |-> config,
                                  tries |-> 0,
                                  result |-> IF config.total_sparsity = Zero
                                             THEN Some(<<>>) ELSE None ])
    /\ AllocUnchanged

\* an iteration whose vector fails the test: the loop goes round again
LoopRetry ==
    /\ last_call # None
    /\ last_call[1].fn = "init_config_sparsity"
    /\ last_call[1].result = None
    /\ last_call[1].tries < MaxTries
    /\ \E draw \in LoopDraws(last_call[1].config) :
          ~Feasible(LoopRescaled(last_call[1].config, draw))
    /\ last_call' = Some([last_call[1] EXCEPT !.tries = @ + 1])
    /\ AllocUnchanged

\* an iteration whose vector passes the test: the loop returns it
LoopExit ==
    /\ last_call # None
    /\ last_call[1].fn = "init_config_sparsity"
    /\ last_call[1].result = None
    /\ \E draw \in LoopDraws(last_call[1].config) :
          /\ Feasible(LoopRescaled(last_call[1].config, draw))
          /\ last_call' = Some([last_call[1] EXCEPT
                                   !.result = Some(LoopRescaled(last_call[1].config, draw))])
    /\ AllocUnchanged

NextLoop ==
    \/ CallInitConfigSparsity
    \/ LoopRetry
    \/ LoopExit

\* a vector that passes the test, when there is one, is eventually drawn
FairSpecLoop ==
    InitLoop /\ [][NextLoop]_vars /\ WF_vars(CallInitConfigSparsity) /\ SF_vars(LoopExit)

(***************************************************************************)
(* The annealing alone with start_temperature >= stop_temperature, the     *)
(* loop never abandoned, one group left unpruned, and candidates rejected   *)
(* only among the first MaxTasks tasks: from then on every compared        *)
(* candidate is accepted.                                                  *)
(***************************************************************************)
MaxFairTasks == 4    \* the fair annealing loop is followed up to this many tasks

FairStopTemperatures == {Rat(1, 1), Rat(2, 1)}

InitSAFair ==
    /\ InitSimulatedAnnealing
    /\ stop_temperature \in FairStopTemperatures
    /\ \E g \in 1..Len(target_sparsity_list) : target_sparsity_list[g].total_sparsity = Zero
    /\ InitBase

\* the call compared the fed-back score and kept the current assignment
Rejected ==
    /\ current_sparsity_list # None
    /\ current_temperature' = current_temperature

FairReceiveTaskResult ==
    /\ Receive(MaxFairTasks)
    /\ Rejected => task_id_candidate < MaxTasks

NextSAFair ==
    \/ SAInitPendingTasks
    \/ NextTask
    \/ FairReceiveTaskResult

\* a step of the loop is possible: init_pending_tasks has not been called, a task
\* is pending, or a task is running whose result can be fed back
SACanStep ==
    \/ ~started
    \/ raised = NoError /\ pending_tasks # <<>>
    \/ raised = NoError /\ running # <<>> /\ task_id_candidate <= MaxFairTasks

\* weak fairness of the loop: it does not halt while a step is possible
FairSpecSA ==
    InitSAFair /\ [][NextSAFair]_vars /\ (<>[]~SACanStep \/ []<><<NextSAFair>>_vars)

(***************************************************************************)
(* The function-based generators given inputs outside their contract: a    *)
(* target total_sparsity above 1, or a result whose achieved sparsity is   *)
(* reported above 1.                                                       *)
(***************************************************************************)
OutTargets == {Rat(1, 2), Rat(3, 2)}
OutAchieved == {Zero, Rat(3, 2)}

InitOut ==
    /\ kind \in FunctionBased
    /\ total_iteration \in 1..MaxIter
    /\ current_iteration = IF kind = LotteryTicket THEN 1 ELSE 0
    /\ \E layout \in Layouts :
          target_sparsity \in
              { [g \in 1..Len(layout) |-> [op_names |-> layout[g], total_sparsity |-> tv[g]]] :
                  tv \in [1..Len(layout) -> OutTargets] }
    /\ kind = LotteryTicket =>
          \A g \in 1..Len(target_sparsity) :
             \/ total_iteration = 1
             \/ HasRoot(RSub(One, target_sparsity[g].total_sparsity), total_iteration)
    /\ weights_numel = None
    /\ masked_rate = None
    /\ target_sparsity_list = None
    /\ start_temperature = None
    /\ stop_temperature = None
    /\ cool_down_rate = None
    /\ perturbation_magnitude = None
    /\ current_temperature = None
    /\ temp_config_list = None
    /\ temp_sparsity_list = None
    /\ current_sparsity_list = None
    /\ current_score = None
    /\ temp_paths = None
    /\ InitBase

\* receive_task_result with a result whose compute_sparsity values may exceed 1
ReceiveOutOfContract ==
    /\ running # <<>>
    /\ raised = NoError
    /\ task_id_candidate <= MaxIter + 1
    /\ \E a \in OutAchieved :
          FeedBack([ task_id |-> Head(running),
                     compact2origin |-> [g \in 1..NGroups |-> a],
                     current2origin |-> [g \in 1..NGroups |-> a],
                     score |-> None ])
    /\ running' = Tail(running)
    /\ pending_tasks' = pending_tasks \o TaskIds(returned')
    /\ UNCHANGED <<kind, started, recalls>>

NextOut ==
    \/ FBInitPendingTasks
    \/ NextTask
    \/ ReceiveOutOfContract

SpecOut == InitOut /\ [][NextOut]_vars

(***************************************************************************)
(* nni.runtime.commands: the command classes of base.py, to_algo.py and    *)
(* from_algo.py, and decode_command applied once to a message.             *)
(***************************************************************************)
\* the class statements in the order they are executed
ClassOrder ==
    << "Command", "ToAlgoCommand", "FromAlgoCommand",
       "InitializeCommand", "ReportMetricDataCommand", "UpdateSearchSpaceCommand",
       "ImportDataCommand", "TrialEndCommand", "TerminateCommand",
       "InitializationCompleteCommand", "NewTrialJobCommand", "KillTrialJobCommand" >>

\* the name each class statement gives as its base
SourceBases ==
    [ Command |-> "object",
      ToAlgoCommand |-> "Command",
      FromAlgoCommand |-> "command",
      InitializeCommand |-> "ToAlgoCommand",
      ReportMetricDataCommand |-> "ToAlgoCommand",
      UpdateSearchSpaceCommand |-> "ToAlgoCommand",
      ImportDataCommand |-> "ToAlgoCommand",
      TrialEndCommand |-> "ToAlgoCommand",
      TerminateCommand |-> "ToAlgoCommand",
      InitializationCompleteCommand |-> "FromAlgoCommand",
      NewTrialJobCommand |-> "FromAlgoCommand",
      KillTrialJobCommand |-> "FromAlgoCommand" ]

\* the same with the base of FromAlgoCommand spelled Command
CapitalisedBases == [SourceBases EXCEPT !["FromAlgoCommand"] = "Command"]

\* the attributes a class body assigns; an annotation without a value assigns none
ClassAttrs ==
    [ Command |-> <<>>,
      ToAlgoCommand |-> [channel |-> "to-algo"],
      FromAlgoCommand |-> [channel |-> "from-algo"],
      InitializeCommand |-> [command_type |-> "initialize"],
      ReportMetricDataCommand |-> [command_type |-> "report-metric-data"],
      UpdateSearchSpaceCommand |-> [command_type |-> "update-search-space"],
      ImportDataCommand |-> [command_type |-> "import-data"],
      TrialEndCommand |-> [command_type |-> "trial-end"],
      TerminateCommand |-> [command_type |-> "terminate"],
      InitializationCompleteCommand |-> [command_type |-> "initialization-complete"],
      NewTrialJobCommand |-> [command_type |-> "new-trial-job"],
      KillTrialJobCommand |-> [command_type |-> "kill-trial-job"] ]

\* every class statement finds the name of its base bound
ModuleLoads(bases) ==
    \A cls \in DOMAIN bases : bases[cls] \in DOMAIN bases \cup {"object"}

\* cls.attr, looked up along the bases; None stands for AttributeError
RECURSIVE GetAttr(_, _, _)
GetAttr(bases, cls, attr) ==
    IF cls = "object" THEN None
    ELSE IF attr \in DOMAIN ClassAttrs[cls] THEN Some(ClassAttrs[cls][attr])
    ELSE GetAttr(bases, bases[cls], attr)

\* cls.__subclasses__(): the classes whose class statement names cls as base
Subclasses(bases, cls) ==
    SelectSeq(ClassOrder, LAMBDA c : bases[c] = cls)

\* _find_command_class from the i-th class of the enumeration on
RECURSIVE FindFrom(_, _, _, _, _)
FindFrom(bases, classes, i, channel, command_type) ==
    IF i > Len(classes) THEN [error |-> "ValueError", cls |-> None]
    ELSE LET ct == GetAttr(bases, classes[i], "command_type")
             ch == GetAttr(bases, classes[i], "channel")
         IN  IF ct = None THEN [error |-> "AttributeError", cls |-> None]
             ELSE IF ct[1] # command_type
                  THEN FindFrom(bases, classes, i + 1, channel, command_type)
                  ELSE IF ch = None THEN [error |-> "AttributeError", cls |-> None]
                       ELSE IF ch[1] = channel
                            THEN [error |-> NoError, cls |-> Some(classes[i])]
                            ELSE FindFrom(bases, classes, i + 1, channel, command_type)

\* _find_command_class(channel, command_type)
FindCommandClass(bases, channel, command_type) ==
    FindFrom(bases, Subclasses(bases, "Command"), 1, channel, command_type)

\* decode_command: the error raised, if any, and the class of the object built
DecodeCommand(bases, data) ==
    IF ~ModuleLoads(bases) THEN [error |-> "NameError", cls |-> None]
    ELSE FindCommandClass(bases, data.channel, data.commandType)

Channels == {"to-algo", "from-algo", "to-trial"}
CommandTypes ==
    { "initialize", "report-metric-data", "update-search-space", "import-data", "trial-end",
      "terminate", "initialization-complete", "new-trial-job", "kill-trial-job", "ping" }
\* the other keys of a message
DataKeys == {"config", "parameterId", "trialJobId"}

InitDecode ==
    /\ kind = "Command"
    /\ total_iteration = None
    /\ current_iteration = None
    /\ target_sparsity = None
    /\ weights_numel = None
    /\ masked_rate = None
    /\ target_sparsity_list = None
    /\ start_temperature = None
    /\ stop_temperature = None
    /\ cool_down_rate = None
    /\ perturbation_magnitude = None
    /\ current_temperature = None
    /\ temp_config_list = None
    /\ temp_sparsity_list = None
    /\ current_sparsity_list = None
    /\ current_score = None
    /\ temp_paths = None
    /\ InitBase

\* decode_command(command_string) on the classes as the source defines them
CallDecodeCommand ==
    /\ last_call = None
    /\ \E channel \in Channels : \E command_type \in CommandTypes : \E keys \in SUBSET DataKeys :
          LET data == [channel |-> channel, commandType |-> command_type, keys |-> keys]
              res == DecodeCommand(SourceBases, data)
              respelled == DecodeCommand(CapitalisedBases, data)
          IN  /\ last_call' = Some([ fn |-> "decode_command", data |-> data, cls |-> res.cls,
                                     respelled |-> respelled ])
              /\ raised' = res.error
    /\ UNCHANGED <<kind, fbvars, saconst, savars, basevars, returned, pending_tasks, running,
                   started, ncalls, recalls, emitted, schedule_calls>>

NextDecode == CallDecodeCommand

SpecDecode == InitDecode /\ [][NextDecode]_vars

(***************************************************************************)
(* Properties                                                              *)
(***************************************************************************)
\* a generate_tasks call is made in this step
Call == ncalls' = ncalls + 1
FBCall == kind \in FunctionBased /\ Call

\* the tasks handed out whose result has not been fed back
Outstanding == Len(pending_tasks) + Len(running)

\* a function-based generator whose last call returned []
FBDone == kind \in FunctionBased /\ started /\ returned = <<>>

FirstIteration == IF kind = LotteryTicket THEN 1 ELSE 0

\* C1: whatever the generator and whatever calls came before, the list a
\* generate_tasks call returns holds no task or exactly one task, never more.
C1_AtMostOneTaskReturned == Len(returned) <= 1

C1_Witness == ncalls >= 3 /\ Len(returned) = 1

\* C2: in the closed loop that starts with the 'origin' result and then feeds back
\* the result of the task last handed out, at most one emitted task is waiting
\* for its result to be fed back.
C2_AtMostOneOutstanding ==
    /\ Outstanding <= 1
    /\ \A i \in 1..Len(pending_tasks) : pending_tasks[i] \in DOMAIN tasks
    /\ \A i \in 1..Len(running) : running[i] \in DOMAIN tasks

C2_Witness == Outstanding = 1 /\ running # <<>> /\ Len(emitted) >= 2

\* C3: a call on a function-based generator returns [] exactly when
\* current_iteration > total_iteration at the time of the call, and one task
\* otherwise; at current_iteration = total_iteration a task is still emitted.
C3_Step ==
    FBCall =>
       /\ (returned' = <<>>) <=> (current_iteration > total_iteration)
       /\ current_iteration <= total_iteration =>
             /\ Len(returned') = 1
             /\ emitted' = Append(emitted, returned'[1].task_id)

C3_EmptyExactlyPastTotal == [][C3_Step]_vars

C3_Witness ==
    /\ kind \in FunctionBased
    /\ schedule_calls # <<>>
    /\ schedule_calls[Len(schedule_calls)] = total_iteration
    /\ Len(returned) = 1

\* C4: from init_pending_tasks on, AGP and Linear call the schedule with iteration
\* 0, 1, ..., N (N + 1 tasks) and LotteryTicket with 1, ..., N (N tasks); the
\* counter never decreases, grows by one on a call that emits a task and is left
\* alone by a call that returns [].
C4_Calls ==
    kind \in FunctionBased =>
       /\ \A k \in 1..Len(schedule_calls) : schedule_calls[k] = FirstIteration + k - 1
       /\ Len(emitted) = Len(schedule_calls)
       /\ FBDone => Len(emitted) = total_iteration + 1 - FirstIteration

C4_Step ==
    kind \in FunctionBased =>
       /\ current_iteration' >= current_iteration
       /\ (Call /\ returned' # <<>>) => current_iteration' = current_iteration + 1
       /\ (Call /\ returned' = <<>>) => current_iteration' = current_iteration

C5_Step == FBDone => (returned' = <<>> /\ emitted' = emitted /\ raised' = NoError)

C5_EventuallyDoneForGood == <>FBDone /\ [][C5_Step]_vars

C5_Witness == FBDone /\ recalls >= 1 /\ ncalls = total_iteration + 3 - FirstIteration

\* C6: each emitted task has a fresh id, one more than the id of the task emitted
\* before it, so no two tasks share an id; a call that returns [] does not
\* advance the id counter.
C6_Ids ==
    /\ \A k \in 2..Len(emitted) : emitted[k] = emitted[k - 1] + 1
    /\ \A j, k \in 1..Len(emitted) : j # k => emitted[j] # emitted[k]
    /\ \A k \in 1..Len(emitted) : emitted[k] < task_id_candidate

C6_Step ==
    Call =>
       IF returned' = <<>>
       THEN task_id_candidate' = task_id_candidate
       ELSE /\ returned'[1].task_id = task_id_candidate
            /\ task_id_candidate' = task_id_candidate + 1

C6_FreshTaskIds == []C6_Ids /\ [][C6_Step]_vars

C6_Witness == kind = SimulatedAnnealing /\ Len(emitted) >= 3 /\ returned = <<>>

\* the last generate_config_list call: its inputs and what it computed for group g
LastCall == last_call[1]
CallGroups == 1..Len(LastCall.targets)
TargetOf(g) == LastCall.targets[g].total_sparsity
AchievedOf(g) == LastCall.achieved[g]
CumulativeOf(g) == LastCall.ori_sparsity[g]
RequestedOf(g) == LastCall.config_list[g].total_sparsity

\* 1 - (1 - A)(1 - S): the sparsity reached by pruning S of what A has left
Composed(A, S) == RSub(One, RMul(RSub(One, A), RSub(One, S)))

\* C7: for targets and achieved sparsities in [0, 1) and iterations 0..N, the
\* incremental sparsity of every group lies in [0, 1], so the assertion
\* 0 <= sparsity <= 1 of generate_config_list holds and nothing is raised.
C7_SparsityInUnitInterval ==
    last_call # None =>
       /\ LastCall.ok
       /\ raised = NoError
       /\ \A g \in CallGroups :
             /\ RequestedOf(g)[2] > 0
             /\ 0 <= RequestedOf(g)[1]
             /\ RequestedOf(g)[1] <= RequestedOf(g)[2]

C7_Witness ==
    /\ last_call # None
    /\ kind = LotteryTicket
    /\ LastCall.iteration = 1
    /\ LastCall.total = 2
    /\ \E g \in CallGroups :
          /\ AchievedOf(g) = Rat(1, 5)
          /\ 0 < RequestedOf(g)[1]
          /\ RequestedOf(g)[1] < RequestedOf(g)[2]

\* C8 as claimed: for every group and valid iteration, and every achieved sparsity
\* A the feedback reports, 1 - (1 - A)(1 - S) equals the cumulative target C(i).
C8_ComposedIsCumulative ==
    last_call # None =>
       \A g \in CallGroups : Composed(AchievedOf(g), RequestedOf(g)) = CumulativeOf(g)

\* C8 as amended: 1 - (1 - A)(1 - S) equals C(i) whenever A <= C(i); when the
\* achieved sparsity already exceeds the cumulative target, S is clamped to 0 and
\* the composition stays at A.
C8_ComposedIsCumulativeUnlessAhead ==
    last_call # None =>
       \A g \in CallGroups :
          IF RLe(AchievedOf(g), CumulativeOf(g))
          THEN Composed(AchievedOf(g), RequestedOf(g)) = CumulativeOf(g)
          ELSE /\ RequestedOf(g) = Zero
               /\ Composed(AchievedOf(g), RequestedOf(g)) = AchievedOf(g)

C8_Witness ==
    /\ last_call # None
    /\ \E g \in CallGroups :
          /\ RLt(Zero, AchievedOf(g))
          /\ RLt(AchievedOf(g), CumulativeOf(g))
    /\ \E g \in CallGroups : RLt(CumulativeOf(g), AchievedOf(g))

\* the cumulative target of the schedule written out: T(N^3 - (N - i)^3)/N^3 for
\* AGP, T i/N for Linear, and for LotteryTicket the C with (1 - C)^N = (1 - T)^i
IsCumulativeTarget(k, C, T, i, N) ==
    CASE k = AGP ->
            C = Rat(T[1] * (N * N * N - (N - i) * (N - i) * (N - i)), T[2] * N * N * N)
      [] k = Linear ->
            C = Rat(T[1] * i, T[2] * N)
      [] k = LotteryTicket ->
            /\ RLe(C, One)
            /\ RPow(RSub(One, C), N) = RPow(RSub(One, T), i)

\* S is max(0, (C - A)/(1 - A))
IsIncrement(S, C, A) ==
    IF RLe(C, A) THEN S = Zero ELSE RMul(S, RSub(One, A)) = RSub(C, A)

\* C9: the total_sparsity written for a group is max(0, (C(i) - A)/(1 - A)) with the
\* schedule's C(i); AGP with T = 0.5, N = 10, i = 5, A = 0.2 gives C = 0.4375 and
\* S = 0.296875; every record keeps the op_names of its group.
C9_ReferenceValues ==
    last_call # None =>
       /\ Len(LastCall.config_list) = Len(LastCall.targets)
       /\ \A g \in CallGroups :
             /\ IsCumulativeTarget(kind, CumulativeOf(g), TargetOf(g),
                                   LastCall.iteration, LastCall.total)
             /\ IsIncrement(RequestedOf(g), CumulativeOf(g), AchievedOf(g))
             /\ LastCall.config_list[g].op_names = LastCall.targets[g].op_names
             /\ (/\ kind = AGP
                 /\ LastCall.total = 10
                 /\ LastCall.iteration = 5
                 /\ TargetOf(g) = <<1, 2>>
                 /\ AchievedOf(g) = <<1, 5>>)
                => (CumulativeOf(g) = <<7, 16>> /\ RequestedOf(g) = <<19, 64>>)
             /\ (kind = Linear /\ LastCall.iteration = 0) => CumulativeOf(g) = Zero

C9_Witness ==
    /\ last_call # None
    /\ kind = AGP
    /\ LastCall.total = 10
    /\ LastCall.iteration = 5
    /\ \E g \in CallGroups :
          /\ TargetOf(g) = <<1, 2>>
          /\ AchievedOf(g) = <<1, 5>>
          /\ RequestedOf(g) = <<19, 64>>

\* C10: when a function-based run reaches DONE, the last task emitted was computed
\* at iteration = total_iteration, where the cumulative target of every group is
\* the user's target T, so that the last request is max(0, (T - A)/(1 - A)).
C10_LastTaskAtTarget ==
    FBDone =>
       /\ last_call # None
       /\ LastCall.iteration = total_iteration
       /\ dumped = <<ConfigListPath(emitted[Len(emitted)]), LastCall.config_list>>
       /\ \A g \in CallGroups :
             /\ CumulativeOf(g) = target_sparsity[g].total_sparsity
             /\ IsIncrement(RequestedOf(g), target_sparsity[g].total_sparsity, AchievedOf(g))

C10_Witness ==
    /\ FBDone
    /\ kind = LotteryTicket
    /\ total_iteration = 2
    /\ \E g \in CallGroups :
          /\ TargetOf(g) = Rat(3, 4)
          /\ AchievedOf(g) = Rat(1, 5)
          /\ RequestedOf(g) = Rat(11, 16)

(***************************************************************************)
(* Properties of the annealing                                             *)
(***************************************************************************)
SACall == kind = SimulatedAnnealing /\ Call
\* a call that compares the fed-back score with an existing current score
SACompare == SACall /\ current_sparsity_list # None

\* the temperature after the step is the temperature before it times cool_down_rate
Cooled ==
    TemperatureRat(current_temperature') =
        RMul(TemperatureRat(current_temperature), cool_down_rate)
\* the candidate and the score of some finished task have become the current ones
Adopted ==
    /\ current_sparsity_list' = Some(temp_sparsity_list)
    /\ \E id \in DOMAIN tasks' : tasks'[id].score # None /\ current_score' = tasks'[id].score
\* the current assignment and score are the ones before the step
Retained ==
    /\ current_sparsity_list' = current_sparsity_list
    /\ current_score' = current_score

\* C11: a call that compares scores either accepts, and the temperature is
\* multiplied by cool_down_rate, or rejects, and the temperature is unchanged; no
\* other step touches the temperature, so with 0 < cool_down_rate <= 1 it never
\* increases.
C11_Step ==
    /\ SACompare => \/ Adopted /\ Cooled
                    \/ Retained /\ current_temperature' = current_temperature
    /\ ~SACompare => current_temperature' = current_temperature
    /\ kind = SimulatedAnnealing =>
          RLe(TemperatureRat(current_temperature'), TemperatureRat(current_temperature))

C11_TemperatureCoolsOnAccept == [][C11_Step]_vars

C11_Witness ==
    /\ kind = SimulatedAnnealing
    /\ ncalls = 4
    /\ 2 \in DOMAIN tasks
    /\ tasks[1].score = Some(1)
    /\ tasks[2].score = Some(0)
    /\ current_score = Some(1)
    /\ current_temperature = CoolDown(Temperature(start_temperature), cool_down_rate)

\* the score fed back by the step, when the executor returns the task it was running
FedScore == tasks'[Head(running)].score[1]

\* C12: a fed-back score strictly greater than current_score is accepted whatever
\* the uniform draw is: the candidate and its score become current and the
\* temperature is cooled.
C12_Step ==
    (SACompare /\ running # <<>> /\ current_score[1] < FedScore) =>
       /\ current_score' = Some(FedScore)
       /\ current_sparsity_list' = Some(temp_sparsity_list)
       /\ Cooled

C12_ImprovementAlwaysAccepted == [][C12_Step]_vars

C12_Witness ==
    /\ kind = SimulatedAnnealing
    /\ ncalls = 3
    /\ 1 \in DOMAIN tasks
    /\ tasks[0].score = Some(0)
    /\ tasks[1].score = Some(1)
    /\ current_score = Some(1)
    /\ current_temperature = CoolDown(Temperature(start_temperature), cool_down_rate)

\* C13: a call after the first returns [] exactly when, after its accept/reject
\* update, current_temperature < stop_temperature; at current_temperature equal to
\* stop_temperature a new candidate is still emitted.
C13_Step ==
    (SACall /\ temp_config_list # None) =>
       IF RLt(TemperatureRat(current_temperature'), stop_temperature)
       THEN returned' = <<>> /\ emitted' = emitted
       ELSE Len(returned') = 1 /\ emitted' = Append(emitted, returned'[1].task_id)

C13_StopsExactlyBelowStopTemperature == [][C13_Step]_vars

C13_Witness ==
    /\ kind = SimulatedAnnealing
    /\ ncalls >= 3
    /\ TemperatureRat(current_temperature) = stop_temperature
    /\ current_temperature # Temperature(start_temperature)
    /\ Len(returned) = 1

RECURSIVE WidePow(_, _)
WidePow(m, k) == IF k = 0 THEN Wide(1) ELSE WideMul(WidePow(m, k - 1), m)

\* the number of cooling steps made, when every compared candidate is accepted:
\* the first two calls compare nothing
Coolings == IF ncalls < 2 THEN 0 ELSE ncalls - 2

\* 100 * 0.9^k < 20
BelowTwenty(k) == WideLt(WideMul(WidePow(9, k), 100), WideMul(WidePow(10, k), 20))

\* C14: with start 100, stop 20, rate 0.9 and every compared candidate accepted,
\* the temperature after k cooling steps is 100 * 0.9^k = 100 * 9^k / 10^k, and
\* generate_tasks returns [] on the call that makes the 16th cooling step and on
\* no earlier call.
C14_StopsAtSixteenthCooling ==
    /\ current_temperature[1] = WideMul(WidePow(9, Coolings), 100)
    /\ current_temperature[2] = WidePow(10, Coolings)
    /\ BelowTwenty(Coolings) <=> Coolings >= 16
    /\ started => (returned = <<>> <=> Coolings = 16)
    /\ Len(emitted) = IF Coolings = 16 THEN 17 ELSE ncalls

C14_Witness ==
    /\ Coolings = 16
    /\ current_temperature = << <<4100, 8518, 188, 5302, 18>>, <<0, 0, 0, 0, 1>> >>
    /\ returned = <<>>
    /\ ~BelowTwenty(15)

\* a call that compares scores and rejects the candidate: the fed-back score is not
\* better and the temperature has not been cooled
SAReject ==
    /\ SACompare
    /\ running # <<>>
    /\ FedScore <= current_score[1]
    /\ ~Cooled

\* C15: when a candidate is rejected, current_score, the current assignment and
\* the temperature are unchanged, and the next candidate is a perturbation of the
\* retained current assignment.
C15_Step ==
    SAReject =>
       /\ current_score' = current_score
       /\ current_sparsity_list' = current_sparsity_list
       /\ current_temperature' = current_temperature
       /\ returned' # <<>> =>
             /\ Len(temp_sparsity_list') = Len(current_sparsity_list[1])
             /\ \A g \in 1..Len(temp_sparsity_list') :
                   temp_sparsity_list'[g] \in
                       PerturbSparsity(target_sparsity_list[g], current_sparsity_list[1][g],
                                       RMul(RDiv(TemperatureRat(current_temperature),
                                                 start_temperature),
                                            perturbation_magnitude),
                                       weights_numel)

C15_RejectionKeepsCurrent == [][C15_Step]_vars

C15_Witness ==
    /\ kind = SimulatedAnnealing
    /\ ncalls = 4
    /\ 3 \in DOMAIN tasks
    /\ tasks[0].score = Some(1)
    /\ tasks[1].score = Some(1)
    /\ tasks[2].score = Some(0)
    /\ current_score = Some(1)
    /\ Len(returned) = 1
    /\ temp_sparsity_list # current_sparsity_list[1]
    /\ \E g \in 1..Len(temp_sparsity_list) : temp_sparsity_list[g] # <<>>

\* C16: every per-op sparsity of every candidate vector that became an emitted
\* task satisfies 0 <= s < 1; the candidate of the task emitted last is
\* _temp_sparsity_list, with _temp_config_list holding the same values per op.
C16_CandidateSparsityInRange ==
    (kind = SimulatedAnnealing /\ temp_config_list # None) =>
       /\ \A g \in 1..Len(temp_sparsity_list) :
             \A i \in 1..Len(temp_sparsity_list[g]) :
                /\ RLe(Zero, temp_sparsity_list[g][i])
                /\ RLt(temp_sparsity_list[g][i], One)
       /\ \A i \in 1..Len(temp_config_list[1]) :
             /\ RLe(Zero, temp_config_list[1][i].total_sparsity)
             /\ RLt(temp_config_list[1][i].total_sparsity, One)

\* group {c} with target 3/4: the draw 1/4 rescales to 9/8 and is sampled again,
\* the draw 3/4 rescales to 27/32
C16_Witness ==
    /\ kind = SimulatedAnnealing
    /\ Len(returned) = 1
    /\ temp_sparsity_list[2] = <<Rat(27, 32)>>
    /\ target_sparsity_list[2].total_sparsity = Rat(3, 4)
    /\ ~Feasible(RescaleSparsity(<<Rat(1, 4)>>, Rat(3, 4), {"c"}, weights_numel))

(***************************************************************************)
(* Properties of the allocator's functions                                 *)
(***************************************************************************)
AllocCall(fn) == last_call # None /\ LastCall.fn = fn

\* sum(weight_i * result_i) / sum(weight_i) over the ascending-sorted pairing
WeightedMean(result, op_names, numel) ==
    LET ops == SortedOps(op_names, numel)
    IN  RDiv(SumRat([i \in 1..Len(ops) |-> RMul(Rat(numel[ops[i]], 1), result[i])]),
             Rat(SumSeq([i \in 1..Len(ops) |-> numel[ops[i]]]), 1))

RAbs(x) == IF x[1] < 0 THEN RNeg(x) ELSE x
Tolerance == Rat(1, 1000)

\* C17 as claimed: whenever the pruned-element count is positive (the result is
\* not None), the weight-weighted mean of the vector _rescale_sparsity returns
\* equals target_sparsity within tolerance.
C17_RescaleReproducesTarget ==
    (AllocCall("rescale") /\ LastCall.result # None) =>
       RLe(RAbs(RSub(WeightedMean(LastCall.result, LastCall.op_names, weights_numel),
                     LastCall.target)),
           Tolerance)

\* C18 as claimed: for a single op with prior mask rate m in (0, 1) and a target
\* T >= m, _recover_real_sparsity applied to the target adjusted by
\* _adjust_target_sparsity gives T again.
C18_RecoverInvertsAdjust ==
    AllocCall("recover") =>
       \A g \in 1..Len(LastCall.origin) :
          \A op \in LastCall.origin[g].op_names :
             (/\ op \in DOMAIN masked_rate
              /\ RLe(masked_rate[op], LastCall.origin[g].total_sparsity))
             => LastCall.result[g].total_sparsity = LastCall.origin[g].total_sparsity

\* the absolute sparsity of an op with prior mask rate m and candidate value s
RealSparsity(op, s) ==
    IF op \in DOMAIN masked_rate
    THEN RSub(One, RMul(RSub(One, masked_rate[op]), RSub(One, s)))
    ELSE s

\* C19: the config list exported with a task is the candidate with
\* _recover_real_sparsity applied exactly once: m + s'(1 - m) for an op with prior
\* mask rate m, s' for an op without; the internal candidate keeps its values.
C19_ExportRecoversOnce ==
    (kind = SimulatedAnnealing /\ dumped # None) =>
       /\ dumped[1] = ConfigListPath(emitted[Len(emitted)])
       /\ Len(dumped[2]) = Len(temp_config_list[1])
       /\ \A i \in 1..Len(dumped[2]) :
             /\ dumped[2][i].op_names = temp_config_list[1][i].op_names
             /\ \A op \in dumped[2][i].op_names :
                   dumped[2][i].total_sparsity =
                       RealSparsity(op, temp_config_list[1][i].total_sparsity)
       /\ temp_config_list[1] =
             TempConfigList(target_sparsity_list, temp_sparsity_list, weights_numel)

C19_Witness ==
    /\ kind = SimulatedAnnealing
    /\ "c" \in DOMAIN masked_rate
    /\ Len(emitted) >= 2
    /\ dumped # None
    /\ \E i \in 1..Len(dumped[2]) :
          /\ dumped[2][i].op_names = {"c"}
          /\ RLt(Zero, temp_config_list[1][i].total_sparsity)
          /\ RLt(temp_config_list[1][i].total_sparsity, dumped[2][i].total_sparsity)
    /\ \E i \in 1..Len(dumped[2]) :
          /\ dumped[2][i].op_names = {"a"}
          /\ dumped[2][i].total_sparsity = temp_config_list[1][i].total_sparsity

\* P: the previously masked elements of a group, m/(1 - m) * weights_numel summed
\* over its masked members; R: weights_numel summed over all its members
MaskedElements(op_names) ==
    SumRat([i \in 1..Len(OpOrder) |->
              IF OpOrder[i] \in op_names /\ OpOrder[i] \in DOMAIN masked_rate
              THEN RDiv(RMul(masked_rate[OpOrder[i]], Rat(weights_numel[OpOrder[i]], 1)),
                        RSub(One, masked_rate[OpOrder[i]]))
              ELSE Zero])
RemainingElements(op_names) ==
    SumRat([i \in 1..Len(OpOrder) |->
              IF OpOrder[i] \in op_names THEN Rat(weights_numel[OpOrder[i]], 1) ELSE Zero])

\* C20: with prior masks each group's target becomes max(0, target - P/(P + R)),
\* which lies in [0, 1); with no prior masks every target is left unchanged.
C20_AdjustedTarget ==
    AllocCall("adjust") =>
       /\ Len(LastCall.result) = Len(LastCall.origin)
       /\ DOMAIN masked_rate = {} => LastCall.result = LastCall.origin
       /\ \A g \in 1..Len(LastCall.origin) :
             LET T == LastCall.origin[g].total_sparsity
                 P == MaskedElements(LastCall.origin[g].op_names)
                 R == RemainingElements(LastCall.origin[g].op_names)
                 shifted == RSub(T, RDiv(P, RAdd(P, R)))
                 adjusted == LastCall.result[g].total_sparsity
             IN  /\ LastCall.result[g].op_names = LastCall.origin[g].op_names
                 /\ adjusted = IF RLt(shifted, Zero) THEN Zero ELSE shifted
                 /\ RLe(Zero, adjusted)
                 /\ RLt(adjusted, One)

C20_Witness ==
    /\ AllocCall("adjust")
    /\ masked_rate = [a |-> Rat(1, 4), c |-> Rat(1, 2)]
    /\ Len(LastCall.origin) = 2
    /\ LastCall.origin[1] = [op_names |-> {"a", "b"}, total_sparsity |-> Rat(1, 2)]
    /\ LastCall.origin[2] = [op_names |-> {"c"}, total_sparsity |-> Rat(1, 4)]
    /\ LastCall.result[1].total_sparsity = Rat(2, 5)
    /\ LastCall.result[2].total_sparsity = Zero

(***************************************************************************)
(* Properties of what is persisted                                         *)
(***************************************************************************)
\* C21 as claimed: every config list document written by generate_tasks, of any
\* generator, is a sequence of records that each name exactly one op.
C21_OneOpPerRecord ==
    dumped # None =>
       \A i \in 1..Len(dumped[2]) : Cardinality(dumped[2][i].op_names) = 1

\* the paths a Task refers to
TaskPaths(task) == {task.model_path, task.masks_path, task.config_list_path}

\* C22: the model snapshot, the masks snapshot and the config list document of
\* every Task returned by generate_tasks, and of every task on record, have been
\* written by the time the call returns.
C22_ReturnedPathsWritten ==
    /\ \A i \in 1..Len(returned) : TaskPaths(returned[i]) \subseteq files
    /\ \A id \in DOMAIN tasks : TaskPaths(tasks[id]) \subseteq files

C22_Witness ==
    /\ kind = SimulatedAnnealing
    /\ Len(returned) = 1
    /\ returned[1].task_id >= 1
    /\ returned[1].model_path = ModelPath(Origin)
    /\ returned[1].masks_path = MasksPath(Origin)
    /\ TaskPaths(returned[1]) \subseteq files

\* the run has terminated: generate_tasks returned [] and nothing is outstanding
Terminated ==
    /\ started
    /\ raised = NoError
    /\ returned = <<>>
    /\ Outstanding = 0

\* the snapshot pair kept under a task id
SnapshotPair(id) == {ModelPath(id), MasksPath(id)}

\* C23 as claimed: once the run has terminated, the persisted layout holds, for
\* every generated task id, a (model, masks) snapshot pair under that id and a
\* config list document, plus the 'origin' baseline; for every generator.
C23_LayoutAsClaimed ==
    Terminated =>
       /\ SnapshotPair(Origin) \subseteq files
       /\ \A id \in DOMAIN tasks :
             SnapshotPair(id) \cup {ConfigListPath(id)} \subseteq files

\* C23 amended: once the run has terminated, the 'origin' baseline and one config
\* list document per generated task id are persisted; a function-based generator
\* also holds a snapshot pair under every task id, simulated annealing holds
\* none: each of its tasks refers to the 'origin' snapshot pair.
C23_LayoutAtTermination ==
    Terminated =>
       /\ SnapshotPair(Origin) \subseteq files
       /\ \A id \in DOMAIN tasks :
             /\ ConfigListPath(id) \in files
             /\ kind \in FunctionBased => SnapshotPair(id) \subseteq files
             /\ kind = SimulatedAnnealing =>
                   /\ SnapshotPair(id) \cap files = {}
                   /\ {tasks[id].model_path, tasks[id].masks_path} = SnapshotPair(Origin)

C23_Witness ==
    /\ Terminated
    /\ kind = SimulatedAnnealing
    /\ DOMAIN tasks # {}
    /\ \A id \in DOMAIN tasks : ConfigListPath(id) \in files
    /\ SnapshotPair(Origin) \subseteq files

(* Properties of the rejection loops *)
InLoop == last_call # None /\ last_call[1].fn = "init_config_sparsity"

\* C24 as claimed: a rejection loop entered for a group with a target strictly
\* between 0 and 1, on a weight table of positive element counts, terminates.
C24_RejectionLoopTerminates ==
    (/\ InLoop
     /\ RLt(Zero, last_call[1].config.total_sparsity)
     /\ RLt(last_call[1].config.total_sparsity, One)
     /\ \A op \in DOMAIN weights_numel : weights_numel[op] > 0)
       ~> (InLoop /\ last_call[1].result # None)

\* the same on the weight table whose ops have several elements
C24_TerminatesOnLargeOps ==
    (InLoop /\ weights_numel \in WeightTables) ~> (InLoop /\ last_call[1].result # None)

\* generate_tasks of the annealing has returned []
SAStopped == kind = SimulatedAnnealing /\ started /\ returned = <<>>

\* C25: with start_temperature >= stop_temperature > 0 and 0 < cool_down_rate < 1,
\* when candidates keep being accepted and every rejection loop exits, some call
\* of generate_tasks eventually returns [].
C25_AnnealingEventuallyStops ==
    (/\ kind = SimulatedAnnealing
     /\ RLt(Zero, stop_temperature)
     /\ RLe(stop_temperature, start_temperature)
     /\ RLt(Zero, cool_down_rate)
     /\ RLt(cool_down_rate, One))
       => <>SAStopped

C25_Witness ==
    /\ SAStopped
    /\ raised = NoError
    /\ RLe(stop_temperature, start_temperature)
    /\ RLt(TemperatureRat(current_temperature), stop_temperature)
    /\ task_id_candidate > 3

\* the sum of floor(w_i * f_i), the fractions in ascending order paired with the
\* ops in ascending order of weight count
PrunedCount(op_names, fractions) ==
    LET ops == SortedOps(op_names, weights_numel)
        f == SortRat(fractions)
    IN  SumSeq([i \in 1..Len(ops) |-> (weights_numel[ops[i]] * f[i][1]) \div f[i][2]])

\* C26: _rescale_sparsity returns None exactly when the sum of floor(w_i * f_i) is
\* 0; the loop that called it then goes round again, and it returns only with a
\* vector rescaled from a draw of positive pruned count; no error is raised.
C26_Step ==
    InLoop =>
       LET config == last_call[1].config
       IN  /\ \A draw \in LoopDraws(config) :
                 LoopRescaled(config, draw) = None <=> PrunedCount(config.op_names, draw) = 0
           /\ raised' = NoError
           /\ last_call'[1].result = None => last_call'[1].tries = last_call[1].tries + 1
           /\ last_call'[1].result # None =>
                 \E draw \in LoopDraws(config) :
                    /\ PrunedCount(config.op_names, draw) > 0
                    /\ last_call'[1].result = Some(LoopRescaled(config, draw))

C26_NoneIsRetried == [][C26_Step]_vars

C26_Witness ==
    /\ InLoop
    /\ last_call[1].tries > 0
    /\ last_call[1].result = None
    /\ \A draw \in LoopDraws(last_call[1].config) :
          /\ PrunedCount(last_call[1].config.op_names, draw) = 0
          /\ LoopRescaled(last_call[1].config, draw) = None

(* Properties of the failed assertion *)
OutOfRange(sparsity) == RLt(sparsity, Zero) \/ RLt(One, sparsity)

\* the call reached generate_config_list and one of the incremental sparsities it
\* computed lies outside [0, 1]
ComputedOutOfRange ==
    /\ FBCall
    /\ schedule_calls' # schedule_calls
    /\ \E g \in 1..Len(last_call'[1].config_list) :
          OutOfRange(last_call'[1].config_list[g].total_sparsity)

\* C27: a function-based generate_tasks that computes an incremental sparsity
\* outside [0, 1] raises an assertion error, and no other call does; the failed
\* call returns no task, registers no task record, writes no config list and
\* leaves current_iteration and the task id counter as they were.
C27_Step ==
    /\ ComputedOutOfRange =>
          /\ raised' = "AssertionError"
          /\ returned' = <<>>
          /\ DOMAIN tasks' = DOMAIN tasks
          /\ emitted' = emitted
          /\ dumped' = dumped
          /\ current_iteration' = current_iteration
          /\ task_id_candidate' = task_id_candidate
    /\ (FBCall /\ raised' # NoError) => ComputedOutOfRange

C27_AssertionAbortsCall == [][C27_Step]_vars

C27_Witness ==
    /\ kind \in FunctionBased
    /\ raised = "AssertionError"
    /\ returned = <<>>
    /\ last_call # None
    /\ \E g \in 1..Len(last_call[1].config_list) :
          RLt(One, last_call[1].config_list[g].total_sparsity)
    /\ DOMAIN tasks = {0}
    /\ task_id_candidate = 1
    /\ current_iteration = FirstIteration + 1

(* Properties of the first feedback and of the order of a candidate *)
\* C28: the first scored feedback of an annealing run, when there is no current
\* score yet, adopts the candidate whatever the score is: current_score becomes
\* the fed-back score, the current assignment becomes the first candidate, and
\* the temperature is left as it was.
C28_Step ==
    (SACall /\ temp_config_list # None /\ current_sparsity_list = None /\ running # <<>>) =>
       /\ current_score = None
       /\ current_score' = Some(FedScore)
       /\ current_sparsity_list' = Some(temp_sparsity_list)
       /\ current_temperature' = current_temperature

C28_FirstFeedbackAdopted == [][C28_Step]_vars

C28_Witness ==
    /\ kind = SimulatedAnnealing
    /\ ncalls = 2
    /\ 0 \in DOMAIN tasks
    /\ tasks[0].score = Some(0)
    /\ current_score = Some(0)
    /\ current_sparsity_list # None
    /\ current_temperature = Temperature(start_temperature)

\* the records of the candidate that name op, and the sparsity the candidate
\* gives to an op that has one record
RecordsOf(op) == {i \in 1..Len(temp_config_list[1]) : temp_config_list[1][i].op_names = {op}}
CandidateSparsity(op) == temp_config_list[1][CHOOSE i \in RecordsOf(op) : TRUE].total_sparsity

\* within group g the ops with fewer weight elements get the smaller sparsities
AscendingInGroup(g) ==
    \A a \in target_sparsity_list[g].op_names : \A b \in target_sparsity_list[g].op_names :
       weights_numel[a] < weights_numel[b] => RLe(CandidateSparsity(a), CandidateSparsity(b))

\* C29 as claimed: in every emitted candidate every op of every group has exactly
\* one record, and within a group the sparsities ascend with the weight counts.
C29_OneRecordPerOpAscending ==
    (kind = SimulatedAnnealing /\ temp_config_list # None) =>
       \A g \in 1..Len(target_sparsity_list) :
          /\ \A op \in target_sparsity_list[g].op_names : Cardinality(RecordsOf(op)) = 1
          /\ AscendingInGroup(g)

\* C29 amended: in every emitted candidate every op of a group whose adjusted
\* target is not 0 has exactly one record, and within the group the sparsities
\* ascend with the weight counts; the ops of a group whose target is 0 have no
\* record.
C29_OneRecordPerAllocatedOpAscending ==
    (kind = SimulatedAnnealing /\ temp_config_list # None) =>
       /\ \A i \in 1..Len(temp_config_list[1]) :
             Cardinality(temp_config_list[1][i].op_names) = 1
       /\ \A g \in 1..Len(target_sparsity_list) :
             IF target_sparsity_list[g].total_sparsity = Zero
             THEN \A op \in target_sparsity_list[g].op_names : RecordsOf(op) = {}
             ELSE /\ \A op \in target_sparsity_list[g].op_names :
                        Cardinality(RecordsOf(op)) = 1
                  /\ AscendingInGroup(g)

C29_Witness ==
    /\ kind = SimulatedAnnealing
    /\ temp_config_list # None
    /\ emitted # <<>>
    /\ Cardinality(RecordsOf("a")) = 1
    /\ Cardinality(RecordsOf("b")) = 1
    /\ weights_numel["a"] < weights_numel["b"]
    /\ RLt(CandidateSparsity("a"), CandidateSparsity("b"))

(* Properties of the metrics on the task records *)
\* the records of tasks other than ids are as they were
OtherRecordsKept(ids) == \A id \in DOMAIN tasks \ ids : tasks'[id] = tasks[id]

\* C30: every call of a function-based generate_tasks, the last one that returns
\* [] included, saves the snapshot pair of the result and puts the achieved
\* sparsity on the record of the result's task, and on no other record; the call
\* with the 'origin' result changes no record.
C30_Step ==
    FBCall =>
       IF ~started
       THEN /\ OtherRecordsKept({})
            /\ SnapshotPair(Origin) \subseteq files'
            /\ \A id \in DOMAIN tasks' : tasks'[id].state = None
       ELSE IF running # <<>>
            THEN /\ tasks'[Head(running)].state # None
                 /\ tasks'[Head(running)].state[1] \in AchievedLists(NGroups)
                 /\ SnapshotPair(Head(running)) \subseteq files'
                 /\ OtherRecordsKept({Head(running)})
                 /\ \A id \in DOMAIN tasks' \ DOMAIN tasks : tasks'[id].state = None
            ELSE \E fed \in DOMAIN tasks :
                    /\ tasks'[fed].state # None
                    /\ SnapshotPair(fed) \subseteq files'
                    /\ OtherRecordsKept({fed})

C30_MetricsAttachedOnEveryCall == [][C30_Step]_vars

C30_Witness ==
    /\ FBDone
    /\ raised = NoError
    /\ Outstanding = 0
    /\ recalls = 0
    /\ Cardinality(DOMAIN tasks) >= 2
    /\ \A id \in DOMAIN tasks : tasks[id].state # None /\ SnapshotPair(id) \subseteq files

(* Properties of the stopped annealing and of its first call *)
\* generate_tasks has returned [] with the temperature below stop_temperature
StoppedBelow ==
    /\ SAStopped
    /\ RLt(TemperatureRat(current_temperature), stop_temperature)

\* C31: once generate_tasks of the annealing has returned [] because the
\* temperature is below stop_temperature, every later call, whatever its score and
\* draw, returns [] as well, emits and registers no task, and leaves the task id
\* counter as it was.
C31_Step ==
    (StoppedBelow /\ SACall) =>
       /\ returned' = <<>>
       /\ emitted' = emitted
       /\ DOMAIN tasks' = DOMAIN tasks
       /\ dumped' = dumped
       /\ task_id_candidate' = task_id_candidate
       /\ RLt(TemperatureRat(current_temperature'), stop_temperature)

C31_StoppedIsAbsorbing == [][C31_Step]_vars

C31_Witness ==
    /\ StoppedBelow
    /\ recalls = 1
    /\ ncalls >= 4
    /\ RLe(stop_temperature, start_temperature)

\* C32: the first call of the annealing, made with the 'origin' result, tests no
\* temperature and takes in no score: it emits exactly one task, also when
\* start_temperature < stop_temperature; in that case every later call returns []
\* and the run emits that one task only.
C32_Step ==
    /\ (SACall /\ ~started) =>
          /\ Len(returned') = 1
          /\ emitted' = <<returned'[1].task_id>>
          /\ DOMAIN tasks' = {returned'[1].task_id}
          /\ current_score' = None
          /\ current_sparsity_list' = None
          /\ current_temperature' = Temperature(start_temperature)
    /\ (SACall /\ started /\ RLt(start_temperature, stop_temperature)) =>
          /\ returned' = <<>>
          /\ Len(emitted) = 1
          /\ emitted' = emitted

C32_FirstCallAlwaysEmits == [][C32_Step]_vars

C32_Witness ==
    /\ kind = SimulatedAnnealing
    /\ RLt(start_temperature, stop_temperature)
    /\ ncalls = 2
    /\ returned = <<>>
    /\ emitted = <<0>>
    /\ current_score # None

(* Properties of the snapshot a task starts from *)
\* the id of the result a call of generate_tasks is given
FedId == IF ~started THEN Origin ELSE Head(running)

\* C33: every task of the annealing refers to the snapshot pair of 'origin' as its
\* model and masks, whatever has been fed back; a task of a function-based
\* generator refers to the snapshot pair saved from the result given to the call
\* that emitted it.
C33_Step ==
    /\ kind = SimulatedAnnealing =>
          \A id \in DOMAIN tasks' :
             /\ tasks'[id].model_path = <<Origin, "compact_model.pth">>
             /\ tasks'[id].masks_path = <<Origin, "compact_model_masks.pth">>
    /\ (FBCall /\ returned' # <<>>) =>
          /\ started => running # <<>>
          /\ returned'[1].model_path = <<FedId, "compact_model.pth">>
          /\ returned'[1].masks_path = <<FedId, "compact_model_masks.pth">>
          /\ {returned'[1].model_path, returned'[1].masks_path} \subseteq files'
          /\ tasks'[returned'[1].task_id] = returned'[1]

C33_TaskStartsFromSnapshot == [][C33_Step]_vars

C33_Witness ==
    /\ kind = SimulatedAnnealing
    /\ DOMAIN tasks = {0, 1, 2}
    /\ tasks[0].score # None
    /\ tasks[1].score # None
    /\ \A id \in DOMAIN tasks :
          tasks[id].model_path = ModelPath(Origin) /\ tasks[id].masks_path = MasksPath(Origin)

(* Properties of the groups that are left unpruned *)
\* a list of per-group vectors is aligned with target_sparsity_list: one entry per
\* group in target order, empty for a target of 0, one value per op otherwise
Aligned(list) ==
    /\ Len(list) = Len(target_sparsity_list)
    /\ \A g \in 1..Len(target_sparsity_list) :
          Len(list[g]) = IF target_sparsity_list[g].total_sparsity = Zero THEN 0
                         ELSE Cardinality(target_sparsity_list[g].op_names)

\* the ops of the groups whose target is 0
SkippedOps ==
    UNION { target_sparsity_list[g].op_names :
              g \in {h \in 1..Len(target_sparsity_list) :
                        target_sparsity_list[h].total_sparsity = Zero} }

\* C34: a group whose adjusted target is 0 is skipped in every round: its entry of
\* the candidate list and of the current list is the empty vector, none of its ops
\* is named in the candidate or in the exported config list, and both lists keep
\* one entry per group in target order.
C34_ZeroTargetGroupSkipped ==
    (kind = SimulatedAnnealing /\ temp_config_list # None) =>
       /\ Aligned(temp_sparsity_list)
       /\ current_sparsity_list # None => Aligned(current_sparsity_list[1])
       /\ \A i \in 1..Len(temp_config_list[1]) :
             temp_config_list[1][i].op_names \cap SkippedOps = {}
       /\ \A i \in 1..Len(dumped[2]) : dumped[2][i].op_names \cap SkippedOps = {}
       /\ Len(dumped[2]) = Len(temp_config_list[1])

C34_Witness ==
    /\ kind = SimulatedAnnealing
    /\ ncalls >= 3
    /\ Len(returned) = 1
    /\ current_sparsity_list # None
    /\ SkippedOps = {"a", "b"}
    /\ temp_sparsity_list[1] = <<>>
    /\ current_sparsity_list[1][1] = <<>>
    /\ Len(temp_sparsity_list[2]) = 1
    /\ Len(dumped[2]) = 1

(* Properties of decode_command *)
\* the (channel, commandType) pairs the command classes declare, with their class
Declared ==
    { <<"to-algo", "initialize", "InitializeCommand">>,
      <<"to-algo", "report-metric-data", "ReportMetricDataCommand">>,
      <<"to-algo", "update-search-space", "UpdateSearchSpaceCommand">>,
      <<"to-algo", "import-data", "ImportDataCommand">>,
      <<"to-algo", "trial-end", "TrialEndCommand">>,
      <<"to-algo", "terminate", "TerminateCommand">>,
      <<"from-algo", "initialization-complete", "InitializationCompleteCommand">>,
      <<"from-algo", "new-trial-job", "NewTrialJobCommand">>,
      <<"from-algo", "kill-trial-job", "KillTrialJobCommand">> }

DecodeCall == last_call # None /\ kind = "Command"

\* C35 as claimed: decode_command of a message whose (channel, commandType) some
\* command class declares returns an instance of that class, and of a message
\* whose pair no class declares raises ValueError and builds no object.
C35_DecodeByKey ==
    DecodeCall =>
       LET data == last_call[1].data
           hits == {d \in Declared : d[1] = data.channel /\ d[2] = data.commandType}
       IN  IF hits # {}
           THEN /\ raised = NoError
                /\ \E d \in hits : last_call[1].cls = Some(d[3])
           ELSE /\ raised = "ValueError"
                /\ last_call[1].cls = None

\* what the classes as written do: no message is decoded, the class statement of
\* FromAlgoCommand raises NameError; with its base spelled Command the lookup
\* raises AttributeError on the first class it enumerates
C35_NothingIsDecoded ==
    DecodeCall =>
       /\ raised = "NameError"
       /\ last_call[1].cls = None
       /\ last_call[1].respelled = [error |-> "AttributeError", cls |-> None]


====
